---- MODULE Spec2Model ----
(***************************************************************************)
(* Model of the BMOS kernel (src/rtos): the intrusive list, the task       *)
(* scheduler with its SVCall / PendSV / SysTick handlers, and the          *)
(* binary / counting semaphores with their LDREXB / STREXB lock.           *)
(*                                                                         *)
(* One CPU.  A task step is one interruptible stretch of task code; the    *)
(* handlers run to completion (all exceptions share one priority, so they  *)
(* do not nest).  A pending PendSV is taken before the thread executes     *)
(* its next step.  Lists are modelled at pointer level (next / prev of     *)
(* every list_state_t), so that list_remove on a node that is not in the   *)
(* list, or list_append of a node that is already linked, does what the C  *)
(* code does.  A write through a null pointer is either dropped or faults. *)
(***************************************************************************)
EXTENDS Integers, Sequences, FiniteSets, TLC

\* ------------------------------------------------------------------ bounds
NElems == 3          \* entries of the test list
NTasks == 3          \* user task slots 1..NTasks (slot 0 is the idle task)
NInit == 2           \* user tasks main() creates before rtos_start()
MaxDelay == 2        \* largest delay / finite timeout a task asks for
MaxValue == 2        \* posts are not started once value has reached this
MaxInit == 1         \* largest initial value of a counting semaphore
MaxIrq == 1          \* interrupts (button presses) that call semaphore_post

\* ------------------------------------------------------- program constants
NULL == -1
LST_BRK == 0
LST_CONT == 1
LST_REM == 2
IdleTask == 0
RTOS_PRIORITY_COUNT == 7
IDLE_TASK_PRIORITY == 0
DEFAULT_PRIORITY == 5
BLOCK_NONE == 0
BLOCK_SEMAPHORE == 1
SYS_TIMEOUT_INF == -1
SEMAPHORE_UNLOCKED == 0
SEMAPHORE_LOCKED == 255
\* config.h: SYS_STACK_PROTECTION_SIZE_DEFAULT, 16 bytes, or 4 registers.
SYS_STACK_PROTECTION_SIZE == 16
PREEMPTION_DISABLED == 0
PREEMPTION_ENABLED == 1

Task == 0..NTasks
UserTask == 1..NTasks
Ptr == Task \cup {NULL}
Prio == 0..(RTOS_PRIORITY_COUNT - 1)
PrioChoices == {DEFAULT_PRIORITY - 1, DEFAULT_PRIORITY}
task_state_t == {"TASK_EXITED", "TASK_DELAYED", "TASK_BLOCKED", "TASK_READY", "TASK_ACTIVE"}
semaphore_type_t == {"SEMAPHORE_COUNTING", "SEMAPHORE_BINARY"}

\* A freed or never allocated task control block.
FreeTcb == [state |-> "TASK_EXITED", blockstate |-> BLOCK_NONE, priority |-> 0]
NoLinks == [next |-> [n \in Task |-> NULL], prev |-> [n \in Task |-> NULL]]

\* list_test.c: elements[1..NElems], none of them in a list; list_return_t.
Elem == 1..NElems
NoElements == [next |-> [n \in Elem |-> NULL], prev |-> [n \in Elem |-> NULL]]
list_return_t == {LST_BRK, LST_CONT, LST_REM}
\* No task_create in progress.
NoCreate == [task |-> NULL, list |-> NULL]

ItrCont == [e \in Elem |-> LST_CONT]
NoCall == [op |-> "none", elem |-> NULL, itr |-> ItrCont, before |-> <<>>,
           ret |-> NULL, calls |-> <<>>, freed |-> <<>>]

\* ------------------------------------------------------------ list.c
\* A heap h is [next, prev]: the _next and _prev of every list_state_t; the
\* _container of node n is n.  Every operation yields the new heap, the new
\* list handle and ub, set when it wrote or read through a null pointer.

\* list_add(list, elem, state, prepend)
list_add(h, list, n, prepend) ==
    IF list = NULL
    THEN [h |-> [next |-> [h.next EXCEPT ![n] = n],
                 prev |-> [h.prev EXCEPT ![n] = n]],
          list |-> n, ub |-> FALSE]
    ELSE LET head == list
             tail == h.prev[head]
             p1 == [h.prev EXCEPT ![head] = n]       \* head->_prev = state
             n2 == [h.next EXCEPT ![n] = head]       \* state->_next = head
             p3 == [p1 EXCEPT ![n] = tail]           \* state->_prev = tail
             n4 == IF tail = NULL THEN n2            \* tail->_next = state
                   ELSE [n2 EXCEPT ![tail] = n]
         IN [h |-> [next |-> n4, prev |-> p3],
             list |-> IF prepend THEN n ELSE head,
             ub |-> tail = NULL]

list_append(h, list, n) == list_add(h, list, n, FALSE)

\* list_prepend that keeps the old head.
list_prepend_asappend(h, list, n) == list_add(h, list, n, FALSE)

list_prepend(h, list, n) == list_add(h, list, n, TRUE)

\* list_remove with the predecessor of a removed head as the new head.
list_remove_headtoprev(h, list, target) ==
    IF list = NULL
    THEN [h |-> h, list |-> NULL, ub |-> FALSE]
    ELSE LET head1 == IF h.next[target] = target THEN NULL ELSE list
             head2 == IF target = head1 THEN h.prev[head1] ELSE head1
             tp == h.prev[target]
             n1 == IF tp = NULL THEN h.next          \* target->_prev->_next = target->_next
                   ELSE [h.next EXCEPT ![tp] = h.next[target]]
             tn == n1[target]
             p2 == IF tn = NULL THEN h.prev          \* target->_next->_prev = target->_prev
                   ELSE [h.prev EXCEPT ![tn] = h.prev[target]]
         IN [h |-> [next |-> [n1 EXCEPT ![target] = NULL],
                    prev |-> [p2 EXCEPT ![target] = NULL]],
             list |-> head2,
             ub |-> (tp = NULL \/ tn = NULL)]

\* list_remove(list, target)
list_remove(h, list, target) ==
    IF list = NULL
    THEN [h |-> h, list |-> NULL, ub |-> FALSE]
    ELSE LET head1 == IF h.next[target] = target THEN NULL ELSE list
             head2 == IF target = head1 THEN h.next[head1] ELSE head1
             tp == h.prev[target]
             n1 == IF tp = NULL THEN h.next          \* target->_prev->_next = target->_next
                   ELSE [h.next EXCEPT ![tp] = h.next[target]]
             tn == n1[target]
             p2 == IF tn = NULL THEN h.prev          \* target->_next->_prev = target->_prev
                   ELSE [h.prev EXCEPT ![tn] = h.prev[target]]
         IN [h |-> [next |-> [n1 EXCEPT ![target] = NULL],
                    prev |-> [p2 EXCEPT ![target] = NULL]],
             list |-> head2,
             ub |-> (tp = NULL \/ tn = NULL)]

list_get_head(list) == list

list_get_tail(h, list) == IF list = NULL THEN NULL ELSE h.prev[list]

\* list_iterate(list, itr): itr maps every element to the list_return_t its
\* callback gives for it.  calls is the sequence of elements the callback was
\* called with, ret the returned element.
RECURSIVE IterateFrom(_, _, _, _, _)
IterateFrom(h, head, current, itr, calls) ==
    LET ret == itr[current]                          \* ret = itr(current->_container)
        nxt == h.next[current]                       \* current = current->_next
        c1 == Append(calls, current)
    IN IF ret = LST_CONT /\ nxt # head
       THEN IterateFrom(h, head, nxt, itr, c1)
       ELSE [ret |-> h.prev[nxt], calls |-> c1]      \* current->_prev->_container

list_iterate(h, list, itr) ==
    IF list = NULL THEN [ret |-> NULL, calls |-> <<>>]
    ELSE IterateFrom(h, list, list, itr, <<>>)

\* The loop condition of list_filter: "head != current && ret != LST_BRK".
FilterOn_whileCont(head, current, ret) == head # current /\ ret = LST_CONT
FilterOn(head, current, ret) == head # current /\ ret # LST_BRK

\* list_filter(list, itr, destructor): calls and freed are the sequences of
\* elements the iterator and the destructor have been called with so far.
RECURSIVE list_filter(_, _, _, _, _)
RECURSIVE FilterFrom(_, _, _, _, _, _, _)
FilterFrom(h, list, head, current, itr, calls, freed) ==
    LET ret == itr[current]
        nxt == h.next[current]
        c1 == Append(calls, current)
    IN IF ret = LST_REM
       THEN LET r == list_remove(h, list, current)
                f1 == Append(freed, current)         \* destructor(remove->_container)
            IN IF current = head
               THEN list_filter(r.h, r.list, itr, c1, f1)
               ELSE IF FilterOn(head, nxt, ret)
               THEN FilterFrom(r.h, r.list, head, nxt, itr, c1, f1)
               ELSE [h |-> r.h, list |-> r.list, calls |-> c1, freed |-> f1]
       ELSE IF FilterOn(head, nxt, ret)
       THEN FilterFrom(h, list, head, nxt, itr, c1, freed)
       ELSE [h |-> h, list |-> list, calls |-> c1, freed |-> freed]

list_filter(h, list, itr, calls, freed) ==
    IF list = NULL THEN [h |-> h, list |-> NULL, calls |-> calls, freed |-> freed]
    ELSE FilterFrom(h, list, list, list, itr, calls, freed)

\* The nodes list_iterate visits when its callback always continues: follow
\* _next from the head until the head comes round again ("ring"), a null
\* _next is met ("null") or a node repeats without the head being reached
\* ("loop": the do-while of list_iterate never ends).
RECURSIVE WalkFrom(_, _, _, _)
WalkFrom(h, head, cur, seen) ==
    LET nx == h.next[cur]
        s == Append(seen, cur)
    IN IF nx = head THEN [seq |-> s, end |-> "ring"]
       ELSE IF nx = NULL THEN [seq |-> s, end |-> "null"]
       ELSE IF \E i \in 1..Len(s) : s[i] = nx THEN [seq |-> s, end |-> "loop"]
       ELSE WalkFrom(h, head, nx, s)

Walk(h, list) ==
    IF list = NULL THEN [seq |-> <<>>, end |-> "ring"]
    ELSE WalkFrom(h, list, list, <<>>)

Members(h, list) == {Walk(h, list).seq[i] : i \in 1..Len(Walk(h, list).seq)}


\* ------------------------------------------------------------ state
VARIABLES
    tcb,            \* task_status_t of every slot: state, blockstate, priority
    alloc,          \* the slots holding a task control block that is not freed
    lnk,            \* list_state of every task control block
    active_task,    \* task.c: active_task
    ready_tasks,    \* task.c: ready_tasks[RTOS_PRIORITY_COUNT] (list handles)
    delayed_tasks,  \* task.c: delayed_tasks
    blocked_tasks,  \* task.c: blocked_tasks
    exited_tasks,   \* task.c: exited_tasks
    pendsv,         \* SCB->ICSR PENDSVSET
    started,        \* the start handler has run (SysTick enabled)
    SYS_USE_PREEMPTION, \* config.h: the build option, fixed from the initial state on
    stack_ptr,      \* stack pointer of every task (psp, stored in stack_ptr at a switch)
    stacks,         \* the slots whose stack was allocated by task_create and is not freed
    oob,            \* a word outside ready_tasks[0..P-1] was used as a ready list
    semalloc,       \* the semaphore_state_t of semaphore_create is not freed
    sem,            \* semaphore_state_t: lock, value, type, waiting_tasks
    went,           \* waiting_task_t allocated by each task's pend: live, task, delay
    wlnk,           \* list_state of every waiting_task_t
    monitor,        \* the local exclusive monitor of LDREXB / STREXB
    pc,             \* where each task's code stands
    lph,            \* phase inside get_semaphore_lock / drop_semaphore_lock
    arg,            \* the delay argument of the call a task is in
    rqe,            \* semaphore_post: runnable_queue_entry of each poster
    halted,         \* "no", "fault" (HardFault) or "hang" (a handler spins)
    dticks,         \* history: ticks since the task entered its delay call
    woken,          \* history: unblock_delayed_task was applied to the task
    postsince,      \* history: a post incremented value since the task enqueued
    bal,            \* history: initial value + effective posts - acquiring pends
    took,           \* history: by how much the task's pend has lowered value
    irqs,           \* history: interrupts that have called semaphore_post
    elements,       \* list_test.c: the list_state of every elements[i]
    test_list,      \* list_test.c: the list handle of main
    creg,           \* task_create in progress: the new task and the list handle read
    lcall           \* history: the last list call of main and what it did

vars == <<tcb, alloc, lnk, active_task, ready_tasks, delayed_tasks, blocked_tasks,
          exited_tasks, pendsv, started, SYS_USE_PREEMPTION, stack_ptr, stacks, oob, semalloc, sem, went, wlnk, monitor, pc, lph, arg,
          rqe, halted, dticks, woken, postsince, bal, took, irqs, elements,
          test_list, lcall, creg>>

schedvars == <<tcb, lnk, active_task, ready_tasks, delayed_tasks, blocked_tasks,
               exited_tasks, pendsv, halted, woken>>

semvars == <<sem, went, wlnk, rqe, postsince, bal, took, irqs>>

listvars == <<elements, test_list, lcall>>

createvars == <<stacks, oob, semalloc, listvars, creg>>

\* The scheduler's data as one value, so that kernel functions compose.
KState ==
    [tcb |-> tcb, lnk |-> lnk, active |-> active_task, ready |-> ready_tasks,
     delayed |-> delayed_tasks, blocked |-> blocked_tasks, exited |-> exited_tasks,
     pendsv |-> pendsv, woken |-> woken, ub |-> FALSE, hang |-> FALSE]

Commit(k) ==
    /\ tcb' = k.tcb
    /\ lnk' = k.lnk
    /\ active_task' = k.active
    /\ ready_tasks' = k.ready
    /\ delayed_tasks' = k.delayed
    /\ blocked_tasks' = k.blocked
    /\ exited_tasks' = k.exited
    /\ pendsv' = k.pendsv
    /\ woken' = k.woken
    /\ halted' \in (IF k.hang THEN {"hang"} ELSE IF k.ub THEN {"no", "fault"} ELSE {"no"})

\* ------------------------------------------------------------ task.c
\* set_pendsv()
set_pendsv(k) == [k EXCEPT !.pendsv = TRUE]

\* task_yield()
task_yield(k) ==
    IF k.active = NULL THEN k
    ELSE set_pendsv([k EXCEPT !.tcb[k.active].state = "TASK_READY"])

\* The for loop of select_active_task: the highest nonempty ready list above
\* priority 0, else 0.
RECURSIVE SelectScan(_, _)
SelectScan(ready, i) ==
    IF i > 0 /\ ready[i] = NULL THEN SelectScan(ready, i - 1) ELSE i

\* An outgoing task that is put at the head of its ready list.
StoreOutgoing_front(k) ==
    LET a == k.active
        p == k.tcb[a].priority
        r == list_prepend(k.lnk, k.ready[p], a)
    IN [k EXCEPT !.lnk = r.h, !.ready[p] = r.list, !.ub = @ \/ r.ub]

\* Where select_active_task stores the outgoing active task.
StoreOutgoing(k) ==
    LET a == k.active
        p == k.tcb[a].priority
    IN IF k.tcb[a].state = "TASK_BLOCKED"
       THEN LET r == list_append(k.lnk, k.blocked, a)
            IN [k EXCEPT !.lnk = r.h, !.blocked = r.list, !.ub = @ \/ r.ub]
       ELSE IF k.tcb[a].state = "TASK_DELAYED"
       THEN LET r == list_append(k.lnk, k.delayed, a)
            IN [k EXCEPT !.lnk = r.h, !.delayed = r.list, !.ub = @ \/ r.ub]
       ELSE LET r == list_append(k.lnk, k.ready[p], a)
            IN [k EXCEPT !.lnk = r.h, !.ready[p] = r.list, !.ub = @ \/ r.ub]

\* select_active_task()
select_active_task(k) ==
    LET i == SelectScan(k.ready, RTOS_PRIORITY_COUNT - 1)
    IN IF k.ready[i] = NULL THEN k
       ELSE LET new_active == list_get_head(k.ready[i])
                r == list_remove(k.lnk, k.ready[i], new_active)
                k1 == [k EXCEPT !.lnk = r.h, !.ready[i] = r.list, !.ub = @ \/ r.ub]
                k2 == IF k1.active # NULL THEN StoreOutgoing(k1) ELSE k1
            IN [k2 EXCEPT !.active = new_active,
                          !.tcb[new_active].state = "TASK_ACTIVE"]

\* The preemption test shared by unblock_task and unblock_delayed_task.  With
\* active_task null the priority read is garbage, and task_yield then returns
\* at once, so either outcome of the comparison leaves the state alone.
UnblockPreempt(k, task) ==
    IF SYS_USE_PREEMPTION = PREEMPTION_ENABLED /\ k.active # NULL
       /\ k.tcb[task].priority > k.tcb[k.active].priority
    THEN task_yield(k)
    ELSE k

\* The part of unblock_task / unblock_delayed_task that runs with interrupts
\* masked, list being "blocked" or "delayed".
UnblockMove(k, task, list) ==
    LET p == k.tcb[task].priority
        t1 == [k.tcb EXCEPT ![task].state = "TASK_READY",
                            ![task].blockstate = BLOCK_NONE]
        r1 == list_remove(k.lnk, k[list], task)
        r2 == list_append(r1.h, k.ready[p], task)
        k2 == [k EXCEPT !.tcb = t1, !.lnk = r2.h, ![list] = r1.list,
                        !.ready[p] = r2.list, !.ub = @ \/ r1.ub \/ r2.ub]
    IN UnblockPreempt(k2, task)

\* unblock_task(task, reason)
unblock_task(k, task, reason) ==
    IF task = NULL THEN k
    ELSE IF k.tcb[task].state # "TASK_BLOCKED" \/ k.tcb[task].blockstate # reason THEN k
    ELSE UnblockMove(k, task, "blocked")

\* unblock_delayed_task(task)
unblock_delayed_task(k, task) ==
    IF task = NULL THEN k
    ELSE UnblockMove([k EXCEPT !.woken[task] = TRUE], task, "delayed")

\* "task->blockstate--" of decrement_task_delay.  A count that has gone below
\* zero needs about 2^32 more ticks to come back to zero; the model keeps
\* every negative count at -1.
TickDown(b) == IF b <= 0 THEN -1 ELSE b - 1

\* decrement_task_delay over the delayed list (first list_iterate of the tick).
TickDecrement(k) ==
    LET w == Walk(k.lnk, k.delayed)
        ms == {w.seq[i] : i \in 1..Len(w.seq)}
        t1 == [n \in Task |->
                 IF n \in ms THEN [k.tcb[n] EXCEPT !.blockstate = TickDown(@)]
                 ELSE k.tcb[n]]
    IN [k EXCEPT !.tcb = t1,
                 !.hang = @ \/ w.end = "loop",
                 !.ub = @ \/ w.end = "null"]

\* list_iterate(delayed_tasks, find_first_zero_delay): the entry before the
\* one the loop stopped at.
FindFirstZero(k) ==
    LET w == Walk(k.lnk, k.delayed)
        zs == {i \in 1..Len(w.seq) : k.tcb[w.seq[i]].blockstate = 0}
        stop == IF zs # {}
                THEN k.lnk.next[w.seq[CHOOSE i \in zs : \A j \in zs : i <= j]]
                ELSE k.delayed
    IN IF stop = NULL THEN NULL ELSE k.lnk.prev[stop]

\* The while (1) loop of SysTickHandler; fuel bounds a loop that a damaged
\* list would keep running.
RECURSIVE TickRelease(_, _)
TickRelease(k, fuel) ==
    IF k.hang \/ k.delayed = NULL THEN k
    ELSE IF fuel = 0 \/ Walk(k.lnk, k.delayed).end # "ring" THEN [k EXCEPT !.hang = TRUE]
    ELSE LET ready_task == FindFirstZero(k)
         IN IF ready_task = list_get_tail(k.lnk, k.delayed)
               /\ (ready_task = NULL \/ k.tcb[ready_task].blockstate # 0)
            THEN k
            ELSE IF ready_task = NULL THEN [k EXCEPT !.ub = TRUE]
            ELSE LET p == k.tcb[ready_task].priority
                     r1 == list_remove(k.lnk, k.delayed, ready_task)
                     r2 == list_append(r1.h, k.ready[p], ready_task)
                 IN TickRelease([k EXCEPT !.lnk = r2.h, !.delayed = r1.list,
                                          !.ready[p] = r2.list,
                                          !.ub = @ \/ r1.ub \/ r2.ub], fuel - 1)

\* The preemption scan of SysTickHandler: i after the while loop.
RECURSIVE TickScan(_, _, _)
TickScan(ready, i, ap) ==
    IF ready[i] = NULL /\ i > ap THEN TickScan(ready, i - 1, ap) ELSE i

\* A tick that asks for a context switch whatever the build option.
TickPreempt_always(k) == task_yield(k)

\* The preemption check with ">=" for ">".
TickPreempt_orEqual(k) ==
    IF SYS_USE_PREEMPTION = PREEMPTION_ENABLED /\ k.active # NULL
       /\ \E p \in Prio : p >= k.tcb[k.active].priority /\ k.ready[p] # NULL
    THEN task_yield(k)
    ELSE k

TickPreempt(k) ==
    IF SYS_USE_PREEMPTION = PREEMPTION_ENABLED /\ k.active # NULL
       /\ TickScan(k.ready, RTOS_PRIORITY_COUNT - 1, k.tcb[k.active].priority)
            > k.tcb[k.active].priority
    THEN task_yield(k)
    ELSE k

\* SysTickHandler()
SysTickHandler(k) ==
    CHOOSE r \in {TickPreempt(k2) : k2 \in {TickRelease(k1, NTasks + 2) :
                                              k1 \in {TickDecrement(k)}}} : TRUE


\* task_create(entry, arg, cfg) for slot n with cfg->task_priority = p
task_create(k, n, p) ==
    LET r == list_append(k.lnk, k.ready[p], n)
    IN [k EXCEPT !.tcb[n] = [state |-> "TASK_READY", blockstate |-> BLOCK_NONE,
                             priority |-> p],
                 !.lnk = r.h, !.ready[p] = r.list, !.ub = @ \/ r.ub]

\* ------------------------------------------------------------ initial state
\* main() has created the user tasks, rtos_start() has created the idle task
\* and is about to execute trigger_svcall().
K0 ==
    [tcb |-> [n \in Task |-> FreeTcb], lnk |-> NoLinks, active |-> NULL,
     ready |-> [i \in Prio |-> NULL], delayed |-> NULL, blocked |-> NULL,
     exited |-> NULL, pendsv |-> FALSE, woken |-> [n \in Task |-> FALSE],
     ub |-> FALSE, hang |-> FALSE]

\* Stack positions are counted in bytes from stack_end: the padding written
\* by task_create ends at stack_softend, and a new task's stack pointer is
\* StackRoom registers (of 4 bytes) above it.
stack_softend == SYS_STACK_PROTECTION_SIZE
StackRoom == 1
stack_start == stack_softend + 4 * StackRoom

\* main() creates the tasks 1..last in turn, rtos_start() the idle task.
RECURSIVE CreateAll(_, _, _, _)
CreateAll(k, pr, n, last) ==
    IF n > last THEN task_create(k, IdleTask, IDLE_TASK_PRIORITY)
    ELSE CreateAll(task_create(k, n, pr[n]), pr, n + 1, last)

NoEntry == [live |-> FALSE, task |-> NULL, delay |-> 0]

InitSched(pr, last) ==
    LET k == CreateAll(K0, pr, 1, last)
    IN /\ tcb = k.tcb
       /\ lnk = k.lnk
       /\ active_task = NULL
       /\ ready_tasks = k.ready
       /\ delayed_tasks = NULL
       /\ blocked_tasks = NULL
       /\ exited_tasks = NULL
       /\ pendsv = FALSE
       /\ woken = k.woken
       /\ halted = "no"
       /\ alloc = 0..last
       /\ started = FALSE
       /\ stack_ptr = [n \in Task |-> stack_start]
       /\ stacks = 0..last
       /\ oob = FALSE
       /\ semalloc = TRUE
       /\ monitor = FALSE
       /\ pc = [n \in Task |-> IF n = IdleTask THEN "idle_loop"
                              ELSE IF n <= last THEN "run" ELSE "free"]
       /\ lph = [n \in Task |-> "none"]
       /\ arg = [n \in Task |-> 0]
       /\ rqe = [n \in Task |-> NULL]
       /\ dticks = [n \in Task |-> 0]
       /\ postsince = [n \in Task |-> FALSE]
       /\ took = [n \in Task |-> 0]
       /\ irqs = 0
       /\ went = [n \in Task |-> NoEntry]
       /\ wlnk = NoLinks
       /\ elements = NoElements
       /\ test_list = NULL
       /\ lcall = NoCall
       /\ creg = [n \in Task |-> NoCreate]

\* semaphore_create_binary() / semaphore_create_counting(start)
semaphore_create_binary ==
    [lock |-> SEMAPHORE_UNLOCKED, type |-> "SEMAPHORE_BINARY", value |-> 0,
     waiting_tasks |-> NULL]

semaphore_create_counting(start) ==
    [lock |-> SEMAPHORE_UNLOCKED, type |-> "SEMAPHORE_COUNTING", value |-> start,
     waiting_tasks |-> NULL]

\* The tasks and the semaphore before rtos_start(), whatever the build option.
InitTasks ==
    /\ \E pr \in [1..NInit -> PrioChoices] : pr[1] = DEFAULT_PRIORITY /\ InitSched(pr, NInit)
    /\ sem \in {semaphore_create_binary}
               \cup {semaphore_create_counting(start) : start \in 0..MaxInit}
    /\ bal = sem.value

\* The default build: config.h defines SYS_USE_PREEMPTION as PREEMPTION_ENABLED.
Init == InitTasks /\ SYS_USE_PREEMPTION = PREEMPTION_ENABLED

\* A build with -DSYS_USE_PREEMPTION=PREEMPTION_DISABLED.
NoPreemptInit == InitTasks /\ SYS_USE_PREEMPTION = PREEMPTION_DISABLED

\* ------------------------------------------------------------ execution
\* The task whose code the CPU executes in thread mode.  It is the active
\* task, except between task_destroy clearing active_task and its svc.
Running ==
    IF active_task # NULL THEN active_task
    ELSE IF \E t \in Task : pc[t] = "destroy_svc"
         THEN CHOOSE t \in Task : pc[t] = "destroy_svc"
         ELSE NULL

CanStep(t) == started /\ halted = "no" /\ ~pendsv /\ Running = t

RetPc(t) == IF t = IdleTask THEN "idle_loop" ELSE "run"

Min(a, b) == IF a < b THEN a ELSE b

\* SVCallHandler: select_active_task, enable_systick, enter the task.
SVCallHandler ==
    /\ halted = "no"
    /\ ~started \/ (active_task = NULL /\ \E t \in Task : pc[t] = "destroy_svc")
    /\ \E k \in {select_active_task(KState)} : Commit(k)
    /\ started' = TRUE
    /\ monitor' = FALSE
    /\ pc' = [t \in Task |-> IF pc[t] = "destroy_svc" THEN "dead" ELSE pc[t]]
    /\ UNCHANGED <<SYS_USE_PREEMPTION, stack_ptr, createvars, alloc, lph, arg, dticks, semvars>>

\* PendSVHandler: save the context, select_active_task, restore the context.
PendSVHandler ==
    /\ started /\ halted = "no" /\ pendsv
    /\ \E k \in {select_active_task([KState EXCEPT !.pendsv = FALSE,
                                                    !.ub = (active_task = NULL)])} :
           Commit(k)
    /\ monitor' = FALSE
    /\ UNCHANGED <<alloc, started, SYS_USE_PREEMPTION, stack_ptr, createvars, pc, lph, arg, dticks, semvars>>

\* The tasks whose delay is being timed (history only).
Timed(t) ==
    \/ pc[t] \in {"delay_pendsv", "delay_ret"}
    \/ /\ arg[t] # SYS_TIMEOUT_INF
       /\ pc[t] \in {"pend_get", "pend_chk", "pend_drop_wait", "pend_wait",
                     "pend_delay_pendsv", "pend_woke"}

\* The SysTick exception.
Tick ==
    /\ started /\ halted = "no" /\ ~pendsv
    /\ \E k \in {SysTickHandler(KState)} : Commit(k)
    /\ monitor' = FALSE
    /\ dticks' = [t \in Task |-> IF Timed(t) THEN Min(dticks[t] + 1, MaxDelay)
                                 ELSE dticks[t]]
    /\ UNCHANGED <<alloc, started, SYS_USE_PREEMPTION, stack_ptr, createvars, pc, lph, arg, semvars>>

\* task_yield() called by a user task: the state write.
TaskYield(t) ==
    /\ CanStep(t) /\ t \in UserTask /\ pc[t] = "run"
    /\ tcb' = [tcb EXCEPT ![active_task].state = "TASK_READY"]
    /\ pc' = [pc EXCEPT ![t] = "yield_pendsv"]
    /\ UNCHANGED <<alloc, lnk, active_task, ready_tasks, delayed_tasks, blocked_tasks,
                   exited_tasks, pendsv, started, SYS_USE_PREEMPTION, stack_ptr, createvars, monitor, lph, arg, halted, dticks,
                   woken, semvars>>

\* task_delay(d): the writes of blockstate and state.
TaskDelay(t, d) ==
    /\ CanStep(t) /\ t \in UserTask /\ pc[t] = "run"
    /\ tcb' = [tcb EXCEPT ![active_task].blockstate = d,
                          ![active_task].state = "TASK_DELAYED"]
    /\ pc' = [pc EXCEPT ![t] = "delay_pendsv"]
    /\ arg' = [arg EXCEPT ![t] = d]
    /\ dticks' = [dticks EXCEPT ![t] = 0]
    /\ woken' = [woken EXCEPT ![t] = FALSE]
    /\ UNCHANGED <<alloc, lnk, active_task, ready_tasks, delayed_tasks, blocked_tasks,
                   exited_tasks, pendsv, started, SYS_USE_PREEMPTION, stack_ptr, createvars, monitor, lph, halted, semvars>>

AfterPendsv(t) ==
    CASE pc[t] = "yield_pendsv" -> RetPc(t)
      [] pc[t] = "delay_pendsv" -> "delay_ret"
      [] pc[t] = "pend_delay_pendsv" -> "pend_woke"
      [] pc[t] = "pend_block_pendsv" -> "pend_woke"

\* set_pendsv() at the end of task_yield, task_delay and block_active_task.
SetPendSV(t) ==
    /\ CanStep(t)
    /\ pc[t] \in {"yield_pendsv", "delay_pendsv", "pend_delay_pendsv", "pend_block_pendsv"}
    /\ pendsv' = TRUE
    /\ pc' = [pc EXCEPT ![t] = AfterPendsv(t)]
    /\ UNCHANGED <<tcb, alloc, lnk, active_task, ready_tasks, delayed_tasks,
                   blocked_tasks, exited_tasks, started, SYS_USE_PREEMPTION, stack_ptr, createvars, monitor, lph, arg, halted,
                   dticks, woken, semvars>>

\* The statement after task_delay(d).
DelayReturn(t) ==
    /\ CanStep(t) /\ pc[t] = "delay_ret"
    /\ pc' = [pc EXCEPT ![t] = "run"]
    /\ arg' = [arg EXCEPT ![t] = 0]
    /\ dticks' = [dticks EXCEPT ![t] = 0]
    /\ woken' = [woken EXCEPT ![t] = FALSE]
    /\ UNCHANGED <<tcb, alloc, lnk, active_task, ready_tasks, delayed_tasks,
                   blocked_tasks, exited_tasks, pendsv, started, SYS_USE_PREEMPTION, stack_ptr, createvars, monitor, lph, halted,
                   semvars>>

\* task_destroy(active_task), also reached through task_exithandler: the
\* append to exited_tasks and the clearing of active_task.
TaskExit(t) ==
    /\ CanStep(t) /\ t \in UserTask /\ pc[t] = "run"
    /\ LET r == list_append(lnk, exited_tasks, active_task)
       IN Commit([KState EXCEPT !.lnk = r.h, !.exited = r.list, !.ub = r.ub,
                                !.active = NULL])
    /\ pc' = [pc EXCEPT ![t] = "destroy_svc"]
    /\ UNCHANGED <<alloc, started, SYS_USE_PREEMPTION, stack_ptr, createvars, monitor, lph, arg, dticks, semvars>>

\* task_create by a running task, into the lowest free slot; the workload
\* keeps at most NInit user tasks alive.
TaskCreate(t, p) ==
    /\ CanStep(t) /\ t \in UserTask /\ pc[t] = "run"
    /\ Cardinality(alloc \cap UserTask) < NInit
    /\ LET n == CHOOSE n \in UserTask \ alloc : \A m \in UserTask \ alloc : n <= m
       IN /\ Commit(task_create(KState, n, p))
          /\ alloc' = alloc \cup {n}
          /\ pc' = [pc EXCEPT ![n] = "run"]
          /\ stack_ptr' = [stack_ptr EXCEPT ![n] = stack_start]
          /\ stacks' = stacks \cup {n}
    /\ UNCHANGED <<started, SYS_USE_PREEMPTION, oob, semalloc, listvars, creg, monitor, lph, arg, dticks, semvars>>

\* A running task pushes a register on its stack (rtos_task5's push loop);
\* the workload stops one register below stack_softend.
TaskPush(t) ==
    /\ CanStep(t) /\ t \in UserTask /\ pc[t] = "run"
    /\ stack_ptr[t] >= stack_softend
    /\ stack_ptr' = [stack_ptr EXCEPT ![t] = @ - 4]
    /\ UNCHANGED <<schedvars, alloc, started, SYS_USE_PREEMPTION, createvars, monitor, pc,
                   lph, arg, dticks, semvars>>

\* What malloc returns inside task_create: "none" fails, "tcb" serves the
\* control block and fails the stack, "both" serves the two requests.
MallocOutcomes == {"none", "tcb", "both"}

\* task_create(entry, arg, cfg) with cfg->task_priority = p and no stack
\* supplied, the control block being placed in slot n.  The result holds the
\* kernel data, the outstanding allocations and the returned handle.
task_create_cfg(k, n, entry, p, m) ==
    LET unchanged == [k |-> k, alloc |-> alloc, stacks |-> stacks, oob |-> oob,
                      ret |-> NULL]
    IN IF ~entry THEN unchanged
       ELSE IF m = "none" THEN unchanged
       ELSE IF p > RTOS_PRIORITY_COUNT
            THEN [unchanged EXCEPT !.alloc = alloc \cup {n}]
       ELSE IF m = "tcb" THEN unchanged
       ELSE IF p \in Prio
            THEN [k |-> task_create(k, n, p), alloc |-> alloc \cup {n},
                  stacks |-> stacks \cup {n}, oob |-> oob, ret |-> n]
       ELSE [k |-> [k EXCEPT !.tcb[n] = [state |-> "TASK_READY",
                                         blockstate |-> BLOCK_NONE, priority |-> p],
                             !.ub = TRUE],
             alloc |-> alloc \cup {n}, stacks |-> stacks \cup {n}, oob |-> TRUE,
             ret |-> n]

\* The priorities the callers of task_create pass, valid and not.
CfgPriorities == PrioChoices \cup {RTOS_PRIORITY_COUNT, RTOS_PRIORITY_COUNT + 1}

\* A running task calls task_create and tests the handle, as task_test does.
TaskCreateCfg(t, entry, p, m) ==
    /\ CanStep(t) /\ t \in UserTask /\ pc[t] = "run"
    /\ UserTask \ alloc # {}
    /\ LET n == CHOOSE n \in UserTask \ alloc : \A o \in UserTask \ alloc : n <= o
           r == task_create_cfg(KState, n, entry, p, m)
       IN /\ Commit(r.k)
          /\ alloc' = r.alloc
          /\ stacks' = r.stacks
          /\ oob' = r.oob
          /\ stack_ptr' = IF r.ret = NULL THEN stack_ptr
                          ELSE [stack_ptr EXCEPT ![n] = stack_start]
          /\ pc' = IF r.ret = NULL THEN [pc EXCEPT ![t] = "create_null"]
                   ELSE [pc EXCEPT ![t] = "create_ok", ![n] = "run"]
    /\ UNCHANGED <<started, SYS_USE_PREEMPTION, semalloc, listvars, creg, monitor, lph, arg, dticks, semvars>>

\* The caller goes on after testing the handle.
CreateReturn(t) ==
    /\ CanStep(t) /\ pc[t] \in {"create_null", "create_ok"}
    /\ pc' = [pc EXCEPT ![t] = "run"]
    /\ UNCHANGED <<schedvars, alloc, started, SYS_USE_PREEMPTION, stack_ptr, createvars,
                   monitor, lph, arg, dticks, semvars>>

\* task_destroy of a task that is not the active one: the list removal that
\* its state selects.
DestroyUnlink(k, tsk) ==
    IF k.tcb[tsk].state = "TASK_BLOCKED"
    THEN LET r == list_remove(k.lnk, k.blocked, tsk)
         IN [k EXCEPT !.lnk = r.h, !.blocked = r.list, !.ub = @ \/ r.ub]
    ELSE IF k.tcb[tsk].state = "TASK_READY"
    THEN LET p == k.tcb[tsk].priority
             r == list_remove(k.lnk, k.ready[p], tsk)
         IN [k EXCEPT !.lnk = r.h, !.ready[p] = r.list, !.ub = @ \/ r.ub]
    ELSE k

\* The lists whose links lead to the control block tsk.
Reaching(k, tsk) ==
    {p \in Prio : tsk \in Members(k.lnk, k.ready[p])}
        \cup (IF tsk \in Members(k.lnk, k.delayed) THEN {"delayed"} ELSE {})
        \cup (IF tsk \in Members(k.lnk, k.blocked) THEN {"blocked"} ELSE {})
        \cup (IF tsk \in Members(k.lnk, k.exited) THEN {"exited"} ELSE {})

\* A running task calls task_destroy(tsk) on another task: the removal, then
\* the two calls of free.  A block freed while a list still leads to it is
\* used after its free: the run goes on with the block's old contents or
\* faults.  The model does not follow the code of a destroyed task.
TaskDestroy(t, tsk) ==
    /\ CanStep(t) /\ t \in UserTask /\ pc[t] = "run"
    /\ tsk \in (UserTask \cap alloc) \ {t} /\ pc[tsk] \notin {"free", "dead"}
    /\ LET k == DestroyUnlink(KState, tsk)
       IN Commit([k EXCEPT !.ub = @ \/ Reaching(k, tsk) # {}])
    /\ alloc' = alloc \ {tsk}
    /\ stacks' = stacks \ {tsk}
    /\ pc' = [pc EXCEPT ![tsk] = "free"]
    /\ UNCHANGED <<started, SYS_USE_PREEMPTION, stack_ptr, oob, semalloc, listvars, creg, monitor, lph, arg, dticks,
                   semvars>>

\* idle_entry: one pass of the reaping loop.
IdleReap ==
    /\ CanStep(IdleTask) /\ pc[IdleTask] = "idle_loop"
    /\ exited_tasks # NULL
    /\ LET task == list_get_head(exited_tasks)
           r == list_remove(lnk, exited_tasks, task)
       IN /\ Commit([KState EXCEPT !.lnk = r.h, !.exited = r.list, !.ub = r.ub,
                                   !.tcb[task] = FreeTcb])
          /\ alloc' = alloc \ {task}
          /\ stacks' = stacks \ {task}
          /\ pc' = [pc EXCEPT ![task] = "free"]
    /\ UNCHANGED <<started, SYS_USE_PREEMPTION, stack_ptr, oob, semalloc, listvars, creg, monitor, lph, arg, dticks, semvars>>

\* idle_entry: fsync, wfi (a hint) and the state write of task_yield.
IdleYield ==
    /\ CanStep(IdleTask) /\ pc[IdleTask] = "idle_loop"
    /\ exited_tasks = NULL
    /\ tcb' = [tcb EXCEPT ![active_task].state = "TASK_READY"]
    /\ pc' = [pc EXCEPT ![IdleTask] = "yield_pendsv"]
    /\ UNCHANGED <<alloc, lnk, active_task, ready_tasks, delayed_tasks, blocked_tasks,
                   exited_tasks, pendsv, started, SYS_USE_PREEMPTION, stack_ptr, createvars, monitor, lph, arg, halted, dticks,
                   woken, semvars>>

\* ------------------------------------------------------------ semaphore.c
\* LDREXB: the value read; the monitor is set by the step that uses it.
ldrexb(lock) == lock

\* A store that ignores the exclusive monitor.
strexb_unconditional(mon, cur, val) == [ok |-> TRUE, mem |-> val]

\* STREXB of val to a byte holding cur: the status (ok) and the byte after;
\* the store happens only with the monitor set.
strexb(mon, cur, val) == [ok |-> mon, mem |-> IF mon THEN val ELSE cur]

GetPcs == {"pend_get", "pend_get2", "post_get", "destroy_get"}
\* The calls of drop_semaphore_lock: in semaphore_pend after the decrement
\* (ret), after the enqueue (wait), in the loop (loop) and at the end (done);
\* in semaphore_post on the no-op path (noop), before the wake-up (unblock)
\* and at the end (ret); in semaphore_destroy when tasks are pending.
DropPcs == {"pend_drop_ret", "pend_drop_wait", "pend_drop_loop", "pend_drop_done",
            "post_drop_noop", "post_drop_ret", "post_drop_unblock", "destroy_drop"}
\* Between a completed get_semaphore_lock and the end of the matching drop.
HoldPcs == {"pend_chk", "pend_chk2", "post_chk", "destroy_chk"} \cup DropPcs

AfterGet(t) ==
    CASE pc[t] = "pend_get" -> "pend_chk"
      [] pc[t] = "pend_get2" -> "pend_chk2"
      [] pc[t] = "post_get" -> "post_chk"
      [] pc[t] = "destroy_get" -> "destroy_chk"

AfterDrop(t) ==
    CASE pc[t] = "pend_drop_ret" -> "pend_ret"
      [] pc[t] = "pend_drop_wait" -> "pend_wait"
      [] pc[t] = "pend_drop_loop" -> "pend_wait"
      [] pc[t] = "pend_drop_done" -> "pend_end"
      [] pc[t] = "post_drop_noop" -> "run"
      [] pc[t] = "post_drop_ret" -> "run"
      [] pc[t] = "post_drop_unblock" -> "post_unblock"
      [] pc[t] = "destroy_drop" -> "destroy_badparam"

\* get_semaphore_lock: try_lock, the ldrexb and the compare.
LockTry(t) ==
    /\ CanStep(t) /\ pc[t] \in GetPcs /\ lph[t] = "try"
    /\ monitor' = TRUE
    /\ lph' = [lph EXCEPT ![t] = IF ldrexb(sem.lock) = SEMAPHORE_UNLOCKED
                                 THEN "take" ELSE "rel"]
    /\ UNCHANGED <<schedvars, semvars, alloc, started, SYS_USE_PREEMPTION, stack_ptr, createvars, pc, arg, dticks>>

\* get_semaphore_lock: the lock was read as closed; strexb writes the value
\* read back.  Status 0 falls through to take_lock, status 1 retries.
LockRel(t) ==
    /\ CanStep(t) /\ pc[t] \in GetPcs /\ lph[t] = "rel"
    /\ LET st == strexb(monitor, sem.lock, SEMAPHORE_LOCKED)
       IN /\ sem' = [sem EXCEPT !.lock = st.mem]
          /\ lph' = [lph EXCEPT ![t] = IF st.ok THEN "take" ELSE "try"]
    /\ monitor' = FALSE
    /\ UNCHANGED <<schedvars, went, wlnk, rqe, postsince, bal, took, irqs, alloc, started, SYS_USE_PREEMPTION, stack_ptr, createvars,
                   pc, arg, dticks>>

\* get_semaphore_lock: take_lock, strexb of SEMAPHORE_LOCKED.
LockTake(t) ==
    /\ CanStep(t) /\ pc[t] \in GetPcs /\ lph[t] = "take"
    /\ LET st == strexb(monitor, sem.lock, SEMAPHORE_LOCKED)
       IN /\ sem' = [sem EXCEPT !.lock = st.mem]
          /\ lph' = [lph EXCEPT ![t] = IF st.ok THEN "none" ELSE "try"]
          /\ pc' = [pc EXCEPT ![t] = IF st.ok THEN AfterGet(t) ELSE @]
    /\ monitor' = FALSE
    /\ UNCHANGED <<schedvars, went, wlnk, rqe, postsince, bal, took, irqs, alloc, started, SYS_USE_PREEMPTION, stack_ptr, createvars,
                   arg, dticks>>

\* drop_semaphore_lock: the ldrexb; a lock read as open spins for ever.
DropLoad(t) ==
    /\ CanStep(t) /\ pc[t] \in DropPcs /\ lph[t] = "dload"
    /\ monitor' = TRUE
    /\ lph' = [lph EXCEPT ![t] = IF ldrexb(sem.lock) = SEMAPHORE_UNLOCKED
                                 THEN "dspin" ELSE "dstore"]
    /\ UNCHANGED <<schedvars, semvars, alloc, started, SYS_USE_PREEMPTION, stack_ptr, createvars, pc, arg, dticks>>

\* drop_semaphore_lock: try_drop, strexb of SEMAPHORE_UNLOCKED, retried
\* (without a new ldrexb) until its status is 0.
DropStore(t) ==
    /\ CanStep(t) /\ pc[t] \in DropPcs /\ lph[t] = "dstore"
    /\ LET st == strexb(monitor, sem.lock, SEMAPHORE_UNLOCKED)
       IN /\ sem' = [sem EXCEPT !.lock = st.mem]
          /\ lph' = [lph EXCEPT ![t] = IF st.ok THEN "none" ELSE "dstore"]
          /\ pc' = [pc EXCEPT ![t] = IF st.ok THEN AfterDrop(t) ELSE @]
    /\ monitor' = FALSE
    /\ UNCHANGED <<schedvars, went, wlnk, rqe, postsince, bal, took, irqs, alloc, started, SYS_USE_PREEMPTION, stack_ptr, createvars,
                   arg, dticks>>

\* The test "semaphore->value > 0" of semaphore_pend.
PendGot(v) == v > 0

\* "semaphore->value--"; it is only executed under the test value > 0, so the
\* unsigned int never wraps.
PendTake(v) == v - 1

\* A post that never takes the no-op path.
PostFull_never(s) == FALSE

\* The no-op test of semaphore_post.
PostFull(s) == s.type = "SEMAPHORE_BINARY" /\ s.value = 1

\* An increment by two.
PostGive_two(v) == v + 2

\* "semaphore->value++"; posts stop at MaxValue, far from the wrap of the
\* unsigned int.
PostGive(v) == v + 1

\* A freed waiting_task_t keeps its bytes while a poster still points at it.
Freed(e) ==
    IF \E u \in Task : rqe[u] = e THEN [went[e] EXCEPT !.live = FALSE] ELSE NoEntry

\* semaphore_pend(sem, delay): the call.
TaskPendCall(t, delay) ==
    /\ CanStep(t) /\ t \in UserTask /\ pc[t] = "run"
    /\ pc' = [pc EXCEPT ![t] = "pend_get"]
    /\ lph' = [lph EXCEPT ![t] = "try"]
    /\ arg' = [arg EXCEPT ![t] = delay]
    /\ dticks' = [dticks EXCEPT ![t] = 0]
    /\ UNCHANGED <<schedvars, semvars, alloc, started, SYS_USE_PREEMPTION, stack_ptr, createvars, monitor>>

\* semaphore_pend: the first test of value, and the enqueue of the waiting entry.
PendCheck(t) ==
    /\ CanStep(t) /\ pc[t] = "pend_chk"
    /\ IF PendGot(sem.value)
       THEN /\ sem' = [sem EXCEPT !.value = PendTake(sem.value)]
            /\ took' = [took EXCEPT ![t] = sem.value - sem'.value]
            /\ bal' = bal - 1
            /\ pc' = [pc EXCEPT ![t] = "pend_drop_ret"]
            /\ UNCHANGED <<went, wlnk, postsince, halted>>
       ELSE LET r == list_append(wlnk, sem.waiting_tasks, t)
            IN /\ went' = [went EXCEPT ![t] = [live |-> TRUE, task |-> active_task,
                                               delay |-> arg[t]]]
               /\ wlnk' = r.h
               /\ sem' = [sem EXCEPT !.waiting_tasks = r.list]
               /\ halted' \in (IF r.ub THEN {"no", "fault"} ELSE {"no"})
               /\ postsince' = [postsince EXCEPT ![t] = FALSE]
               /\ pc' = [pc EXCEPT ![t] = "pend_drop_wait"]
               /\ UNCHANGED <<took, bal>>
    /\ lph' = [lph EXCEPT ![t] = "dload"]
    /\ UNCHANGED <<tcb, lnk, active_task, ready_tasks, delayed_tasks, blocked_tasks,
                   exited_tasks, pendsv, woken, rqe, irqs, alloc, started, SYS_USE_PREEMPTION, stack_ptr, createvars, monitor, arg,
                   dticks>>

\* semaphore_pend: block_active_task(BLOCK_SEMAPHORE) or task_delay(delay), up
\* to their set_pendsv; task_delay(0) returns at once.
PendWait(t) ==
    /\ CanStep(t) /\ pc[t] = "pend_wait"
    /\ IF arg[t] = SYS_TIMEOUT_INF
       THEN /\ tcb' = [tcb EXCEPT ![active_task].state = "TASK_BLOCKED",
                                  ![active_task].blockstate = BLOCK_SEMAPHORE]
            /\ pc' = [pc EXCEPT ![t] = "pend_block_pendsv"]
       ELSE IF arg[t] = 0
       THEN /\ tcb' = tcb
            /\ pc' = [pc EXCEPT ![t] = "pend_woke"]
       ELSE /\ tcb' = [tcb EXCEPT ![active_task].blockstate = arg[t],
                                  ![active_task].state = "TASK_DELAYED"]
            /\ pc' = [pc EXCEPT ![t] = "pend_delay_pendsv"]
    /\ woken' = [woken EXCEPT ![t] = FALSE]
    /\ UNCHANGED <<alloc, lnk, active_task, ready_tasks, delayed_tasks, blocked_tasks,
                   exited_tasks, pendsv, started, SYS_USE_PREEMPTION, stack_ptr, createvars, monitor, lph, arg, halted, dticks,
                   semvars>>

\* semaphore_pend: back from block_active_task / task_delay, about to take
\* the lock again.
PendWoke(t) ==
    /\ CanStep(t) /\ pc[t] = "pend_woke"
    /\ pc' = [pc EXCEPT ![t] = "pend_get2"]
    /\ lph' = [lph EXCEPT ![t] = "try"]
    /\ UNCHANGED <<schedvars, semvars, alloc, started, SYS_USE_PREEMPTION, stack_ptr, createvars, monitor, arg, dticks>>

\* A wake-up that never goes back to block_active_task.
PendAgain_never(delay, v) == FALSE

\* The else branch inside the while (1) loop of semaphore_pend: an infinite
\* pend woken with value still 0 drops the lock and blocks again.
PendAgain(delay, v) == delay = SYS_TIMEOUT_INF /\ ~PendGot(v)

\* semaphore_pend: the test of value after a wake-up, and (unless the
\* infinite pend goes round again) the removal and free of the waiting entry.
PendCheck2(t) ==
    /\ CanStep(t) /\ pc[t] = "pend_chk2"
    /\ IF PendAgain(arg[t], sem.value)
       THEN /\ pc' = [pc EXCEPT ![t] = "pend_drop_loop"]
            /\ UNCHANGED <<sem, went, wlnk, took, bal, halted>>
       ELSE LET r == list_remove(wlnk, sem.waiting_tasks, t)
                got == PendGot(sem.value)
            IN /\ sem' = [sem EXCEPT !.value = IF got THEN PendTake(@) ELSE @,
                                     !.waiting_tasks = r.list]
               /\ took' = [took EXCEPT ![t] = sem.value - sem'.value]
               /\ bal' = IF got THEN bal - 1 ELSE bal
               /\ wlnk' = r.h
               /\ went' = [went EXCEPT ![t] = Freed(t)]
               /\ halted' \in (IF r.ub THEN {"no", "fault"} ELSE {"no"})
               /\ pc' = [pc EXCEPT ![t] = "pend_drop_done"]
    /\ lph' = [lph EXCEPT ![t] = "dload"]
    /\ UNCHANGED <<tcb, lnk, active_task, ready_tasks, delayed_tasks, blocked_tasks,
                   exited_tasks, pendsv, woken, rqe, postsince, irqs, alloc, started, SYS_USE_PREEMPTION, stack_ptr, createvars,
                   monitor, arg, dticks>>

\* semaphore_pend returns to its caller: the return after the decrement
\* (pend_ret) or the end of the function (pend_end).
PendReturn(t) ==
    /\ CanStep(t) /\ pc[t] \in {"pend_ret", "pend_end"}
    /\ pc' = [pc EXCEPT ![t] = "run"]
    /\ arg' = [arg EXCEPT ![t] = 0]
    /\ dticks' = [dticks EXCEPT ![t] = 0]
    /\ woken' = [woken EXCEPT ![t] = FALSE]
    /\ postsince' = [postsince EXCEPT ![t] = FALSE]
    /\ took' = [took EXCEPT ![t] = 0]
    /\ UNCHANGED <<tcb, alloc, lnk, active_task, ready_tasks, delayed_tasks,
                   blocked_tasks, exited_tasks, pendsv, started, SYS_USE_PREEMPTION, stack_ptr, createvars, monitor, lph, halted,
                   sem, went, wlnk, rqe, bal, irqs>>

\* What semaphore_pend hands back: the function is declared void.
PendResult(acquired) == "void"

\* A post that picks an entry to wake on the no-op path too.
post_locked_wakes(s) ==
    IF PostFull(s) THEN [sem |-> s, entry |-> list_get_head(s.waiting_tasks),
                         gave |-> FALSE]
    ELSE [sem |-> [s EXCEPT !.value = PostGive(s.value)],
          entry |-> list_get_head(s.waiting_tasks),
          gave |-> TRUE]

\* semaphore_post: from the test of value to the choice of the entry to wake,
\* with the lock held.  Yields the semaphore, the entry (or NULL) and whether
\* value was incremented.
post_locked(s) ==
    IF PostFull(s) THEN [sem |-> s, entry |-> NULL, gave |-> FALSE]
    ELSE [sem |-> [s EXCEPT !.value = PostGive(s.value)],
          entry |-> list_get_head(s.waiting_tasks),
          gave |-> TRUE]

\* semaphore_post: the wake-up of the task of runnable_queue_entry, made after
\* the lock is dropped.
post_unblock(k, e) ==
    LET k1 == [k EXCEPT !.ub = @ \/ ~went[e].live]
    IN IF went[e].delay = SYS_TIMEOUT_INF
       THEN unblock_task(k1, went[e].task, BLOCK_SEMAPHORE)
       ELSE unblock_delayed_task(k1, went[e].task)

\* semaphore_post(sem) by a task: the call.
TaskPostCall(t) ==
    /\ CanStep(t) /\ t \in UserTask /\ pc[t] = "run"
    /\ sem.value < MaxValue
    /\ pc' = [pc EXCEPT ![t] = "post_get"]
    /\ lph' = [lph EXCEPT ![t] = "try"]
    /\ UNCHANGED <<schedvars, semvars, alloc, started, SYS_USE_PREEMPTION, stack_ptr, createvars, monitor, arg, dticks>>

PostSince(gave) ==
    [u \in Task |-> postsince[u] \/ (gave /\ went[u].live)]

\* semaphore_post by a task: the part under the lock.
PostCheck(t) ==
    /\ CanStep(t) /\ pc[t] = "post_chk"
    /\ LET r == post_locked(sem)
       IN /\ sem' = r.sem
          /\ bal' = IF r.gave THEN bal + 1 ELSE bal
          /\ postsince' = PostSince(r.gave)
          /\ rqe' = [rqe EXCEPT ![t] = r.entry]
          /\ pc' = [pc EXCEPT ![t] = IF ~r.gave THEN "post_drop_noop"
                                     ELSE IF r.entry # NULL THEN "post_drop_unblock"
                                     ELSE "post_drop_ret"]
    /\ lph' = [lph EXCEPT ![t] = "dload"]
    /\ UNCHANGED <<schedvars, went, wlnk, took, irqs, alloc, started, SYS_USE_PREEMPTION, stack_ptr, createvars, monitor, arg,
                   dticks>>

\* semaphore_post by a task: unblock_task / unblock_delayed_task and return.
PostUnblock(t) ==
    /\ CanStep(t) /\ pc[t] = "post_unblock"
    /\ \E k \in {post_unblock(KState, rqe[t])} : Commit(k)
    /\ rqe' = [rqe EXCEPT ![t] = NULL]
    /\ went' = [went EXCEPT ![rqe[t]] = IF went[rqe[t]].live
                                           \/ \E u \in Task \ {t} : rqe[u] = rqe[t]
                                        THEN @ ELSE NoEntry]
    /\ pc' = [pc EXCEPT ![t] = "run"]
    /\ UNCHANGED <<sem, wlnk, postsince, bal, took, irqs, alloc, started, SYS_USE_PREEMPTION, stack_ptr, createvars, monitor, lph,
                   arg, dticks>>

\* A semaphore_destroy that never finds a task pending.
DestroyRefused_never(waiting) == FALSE

\* The test "semaphore->waiting_tasks != NULL" of semaphore_destroy.
DestroyRefused(waiting) == waiting # NULL

\* semaphore_destroy(sem): the call.
SemDestroyCall(t) ==
    /\ CanStep(t) /\ t \in UserTask /\ pc[t] = "run"
    /\ semalloc
    /\ pc' = [pc EXCEPT ![t] = "destroy_get"]
    /\ lph' = [lph EXCEPT ![t] = "try"]
    /\ UNCHANGED <<schedvars, semvars, alloc, started, SYS_USE_PREEMPTION, stack_ptr, createvars,
                   monitor, arg, dticks>>

\* semaphore_destroy with the lock held: with tasks pending it goes on to
\* drop the lock and return ERR_BADPARAM, otherwise it frees the semaphore,
\* whose lock byte is left closed, and returns SYS_OK.
SemDestroyCheck(t) ==
    /\ CanStep(t) /\ pc[t] = "destroy_chk"
    /\ IF DestroyRefused(sem.waiting_tasks)
       THEN /\ pc' = [pc EXCEPT ![t] = "destroy_drop"]
            /\ lph' = [lph EXCEPT ![t] = "dload"]
            /\ semalloc' = semalloc
       ELSE /\ pc' = [pc EXCEPT ![t] = "destroy_ok"]
            /\ lph' = lph
            /\ semalloc' = FALSE
    /\ UNCHANGED <<schedvars, semvars, alloc, started, SYS_USE_PREEMPTION, stack_ptr, stacks, oob, listvars, creg,
                   monitor, arg, dticks>>

\* The caller goes on with the syserr_t returned.
SemDestroyReturn(t) ==
    /\ CanStep(t) /\ pc[t] \in {"destroy_badparam", "destroy_ok"}
    /\ pc' = [pc EXCEPT ![t] = "run"]
    /\ UNCHANGED <<schedvars, semvars, alloc, started, SYS_USE_PREEMPTION, stack_ptr, createvars,
                   monitor, lph, arg, dticks>>

\* semaphore_post called from an interrupt handler (the button callback of
\* the demo): the whole call, or a handler that spins on a held lock.
IsrPost ==
    /\ started /\ halted = "no" /\ ~pendsv
    /\ sem.value < MaxValue
    /\ irqs < MaxIrq
    /\ irqs' = irqs + 1
    /\ IF sem.lock # SEMAPHORE_UNLOCKED
       THEN /\ halted' = "hang"
            /\ UNCHANGED <<tcb, lnk, active_task, ready_tasks, delayed_tasks,
                           blocked_tasks, exited_tasks, pendsv, woken, sem, bal,
                           postsince>>
       ELSE LET r == post_locked(sem)
            IN /\ sem' = r.sem
               /\ bal' = IF r.gave THEN bal + 1 ELSE bal
               /\ postsince' = PostSince(r.gave)
               /\ \E k \in {IF r.entry # NULL THEN post_unblock(KState, r.entry)
                              ELSE KState} : Commit(k)
    /\ monitor' = FALSE
    /\ UNCHANGED <<went, wlnk, rqe, took, alloc, started, SYS_USE_PREEMPTION, stack_ptr, createvars, pc, lph, arg, dticks>>

\* The steps of semaphore_pend and semaphore_post other than the retry of
\* get_semaphore_lock on a lock that is held.
SemCalls ==
    \/ \E t \in Task : LockTry(t) \/ LockTake(t)
    \/ \E t \in Task : DropLoad(t) \/ DropStore(t)
    \/ \E t \in UserTask, d \in {SYS_TIMEOUT_INF} \cup 1..MaxDelay : TaskPendCall(t, d)
    \/ \E t \in Task : PendCheck(t) \/ PendWait(t) \/ PendWoke(t) \/ PendCheck2(t)
                       \/ PendReturn(t)
    \/ \E t \in UserTask : TaskPostCall(t)
    \/ \E t \in Task : PostCheck(t) \/ PostUnblock(t)
    \/ IsrPost

SemNext ==
    \/ SemCalls
    \/ \E t \in Task : LockRel(t)

SchedNext ==
    \/ SVCallHandler
    \/ PendSVHandler
    \/ Tick
    \/ \E t \in Task : SetPendSV(t) \/ DelayReturn(t)
    \/ \E t \in UserTask : TaskYield(t) \/ TaskExit(t)
    \/ \E t \in UserTask, d \in 1..MaxDelay : TaskDelay(t, d)
    \/ \E t \in UserTask, p \in PrioChoices : TaskCreate(t, p)
    \/ IdleReap
    \/ IdleYield

SchedSpec == Init /\ [][SchedNext]_vars

\* The task-test workload with a task that overflows its stack.
StackNext ==
    \/ SchedNext
    \/ \E t \in UserTask : TaskPush(t)

StackSpec == Init /\ [][StackNext]_vars


\* The semaphore workload: tasks that only pend, post and sleep.
SemOnlyNext ==
    \/ SVCallHandler
    \/ PendSVHandler
    \/ Tick
    \/ \E t \in Task : SetPendSV(t)
    \/ IdleYield
    \/ SemNext

SemSpec == Init /\ [][SemOnlyNext]_vars

\* The semaphore workload under either build option.
PostInit == InitTasks /\ SYS_USE_PREEMPTION \in {PREEMPTION_DISABLED, PREEMPTION_ENABLED}

\* Tasks that pend without timeout, post and yield; interrupt handlers that
\* post.
PostNext ==
    \/ SVCallHandler
    \/ PendSVHandler
    \/ Tick
    \/ \E t \in Task : SetPendSV(t)
    \/ \E t \in UserTask : TaskYield(t)
    \/ IdleYield
    \/ \E t \in Task : LockTry(t) \/ LockRel(t) \/ LockTake(t)
    \/ \E t \in Task : DropLoad(t) \/ DropStore(t)
    \/ \E t \in UserTask : TaskPendCall(t, SYS_TIMEOUT_INF)
    \/ \E t \in Task : PendCheck(t) \/ PendWait(t) \/ PendWoke(t) \/ PendCheck2(t)
                       \/ PendReturn(t)
    \/ \E t \in UserTask : TaskPostCall(t)
    \/ \E t \in Task : PostCheck(t) \/ PostUnblock(t)
    \/ IsrPost

PostSpec == PostInit /\ [][PostNext]_vars

\* Tasks that sleep and pend for ever on the semaphore, with no post at all:
\* unblock_task is never called.
BlockNext ==
    \/ SVCallHandler
    \/ PendSVHandler
    \/ Tick
    \/ \E t \in Task : SetPendSV(t) \/ DelayReturn(t)
    \/ \E t \in UserTask, d \in 1..MaxDelay : TaskDelay(t, d)
    \/ IdleYield
    \/ \E t \in Task : LockTry(t) \/ LockTake(t)
    \/ \E t \in Task : DropLoad(t) \/ DropStore(t)
    \/ \E t \in UserTask : TaskPendCall(t, SYS_TIMEOUT_INF)
    \/ \E t \in Task : PendCheck(t) \/ PendWait(t) \/ PendWoke(t) \/ PendCheck2(t)
                       \/ PendReturn(t)

BlockSpec == Init /\ [][BlockNext]_vars

\* ------------------------------------------------- task_create, step by step
\* task_create runs in task context with interrupts enabled.  Its last
\* statement, ready_tasks[p] = list_append(ready_tasks[p], task, ...), is three
\* steps an interrupt can separate: the read of the list handle passed as
\* argument, the pointer writes of list_add, and the store of the result.

\* task_create up to the read of ready_tasks[task->priority] (task.c:76-161).
CreateCall(t, p) ==
    /\ CanStep(t) /\ t \in UserTask /\ pc[t] = "run"
    /\ UserTask \ alloc # {}
    /\ LET n == CHOOSE n \in UserTask \ alloc : \A m \in UserTask \ alloc : n <= m
       IN /\ tcb' = [tcb EXCEPT ![n] = [state |-> "TASK_READY",
                                        blockstate |-> BLOCK_NONE, priority |-> p]]
          /\ alloc' = alloc \cup {n}
          /\ stacks' = stacks \cup {n}
          /\ stack_ptr' = [stack_ptr EXCEPT ![n] = stack_start]
          /\ creg' = [creg EXCEPT ![t] = [task |-> n, list |-> ready_tasks[p]]]
          /\ pc' = [pc EXCEPT ![t] = "create_link", ![n] = "run"]
    /\ UNCHANGED <<lnk, active_task, ready_tasks, delayed_tasks, blocked_tasks,
                   exited_tasks, pendsv, halted, woken, semvars, started,
                   SYS_USE_PREEMPTION, oob, semalloc, listvars, monitor, lph, arg,
                   dticks>>

\* The body of list_add on the handle read before (list.c:175-205).
CreateLink(t) ==
    /\ CanStep(t) /\ pc[t] = "create_link"
    /\ LET r == list_append(lnk, creg[t].list, creg[t].task)
       IN /\ lnk' = r.h
          /\ creg' = [creg EXCEPT ![t].list = r.list]
          /\ halted' \in (IF r.ub THEN {"no", "fault"} ELSE {"no"})
    /\ pc' = [pc EXCEPT ![t] = "create_store"]
    /\ UNCHANGED <<tcb, active_task, ready_tasks, delayed_tasks, blocked_tasks,
                   exited_tasks, pendsv, woken, semvars, alloc, started,
                   SYS_USE_PREEMPTION, stack_ptr, stacks, oob, semalloc, listvars,
                   monitor, lph, arg, dticks>>

\* The store of the returned handle into ready_tasks[task->priority] and the
\* return (task.c:161-172).
CreateStore(t) ==
    /\ CanStep(t) /\ pc[t] = "create_store"
    /\ ready_tasks' = [ready_tasks EXCEPT ![tcb[creg[t].task].priority] = creg[t].list]
    /\ creg' = [creg EXCEPT ![t] = NoCreate]
    /\ pc' = [pc EXCEPT ![t] = "run"]
    /\ UNCHANGED <<tcb, lnk, active_task, delayed_tasks, blocked_tasks,
                   exited_tasks, pendsv, halted, woken, semvars, alloc, started,
                   SYS_USE_PREEMPTION, stack_ptr, stacks, oob, semalloc, listvars,
                   monitor, lph, arg, dticks>>

\* Tasks that yield, delay and create tasks, with the tick running.
IrqNext ==
    \/ SVCallHandler
    \/ PendSVHandler
    \/ Tick
    \/ \E t \in Task : SetPendSV(t) \/ DelayReturn(t)
    \/ \E t \in UserTask : TaskYield(t)
    \/ \E t \in UserTask, d \in 1..MaxDelay : TaskDelay(t, d)
    \/ \E t \in UserTask, p \in PrioChoices : CreateCall(t, p)
    \/ \E t \in UserTask : CreateLink(t) \/ CreateStore(t)
    \/ IdleYield

IrqSpec == PostInit /\ [][IrqNext]_vars

\* task_destroy(tsk) by a running task on a task that has exited and waits on
\* the exited list for the idle task: tsk is not the active task, its state
\* is neither TASK_BLOCKED nor TASK_READY, so it is freed where it stands.
TaskDestroyExited(t, tsk) ==
    /\ CanStep(t) /\ t \in UserTask /\ pc[t] = "run"
    /\ tsk \in (UserTask \cap alloc) \ {t} /\ pc[tsk] = "dead"
    /\ Commit(DestroyUnlink(KState, tsk))
    /\ alloc' = alloc \ {tsk}
    /\ stacks' = stacks \ {tsk}
    /\ pc' = [pc EXCEPT ![tsk] = "free"]
    /\ UNCHANGED <<started, SYS_USE_PREEMPTION, stack_ptr, oob, semalloc, listvars,
                   creg, monitor, lph, arg, dticks, semvars>>

\* Tasks that exit, are destroyed by others after their exit, and are reaped.
ReapNext ==
    \/ SVCallHandler
    \/ PendSVHandler
    \/ Tick
    \/ \E t \in Task : SetPendSV(t)
    \/ \E t \in UserTask : TaskYield(t) \/ TaskExit(t)
    \/ \E t, tsk \in UserTask : TaskDestroyExited(t, tsk)
    \/ IdleReap
    \/ IdleYield

ReapSpec == Init /\ [][ReapNext]_vars

\* ------------------------------------------------- several waiters, one poster
\* Tasks 1 and 2 pend on a counting semaphore without timeout, the last task
\* posts; every task may yield between its calls.
Waiters == {1, 2}
Poster == NTasks

WakeInit ==
    /\ \E pr \in [UserTask -> PrioChoices] : pr[1] = DEFAULT_PRIORITY /\ InitSched(pr, NTasks)
    /\ SYS_USE_PREEMPTION = PREEMPTION_ENABLED
    /\ sem = semaphore_create_counting(0)
    /\ bal = sem.value

\* The instructions task t executes in thread mode.
WakeStep(t) ==
    \/ t \in Waiters /\ TaskPendCall(t, SYS_TIMEOUT_INF)
    \/ t = Poster /\ TaskPostCall(t)
    \/ t \in UserTask /\ TaskYield(t)
    \/ SetPendSV(t)
    \/ t = IdleTask /\ IdleYield
    \/ LockTry(t) \/ LockRel(t) \/ LockTake(t)
    \/ DropLoad(t) \/ DropStore(t)
    \/ PendCheck(t) \/ PendWait(t) \/ PendWoke(t) \/ PendCheck2(t) \/ PendReturn(t)
    \/ PostCheck(t) \/ PostUnblock(t)

WakeNext == SVCallHandler \/ PendSVHandler \/ Tick \/ \E t \in Task : WakeStep(t)

\* The scheduler workload in both builds of config.h.
BuildSpec == PostInit /\ [][SchedNext]_vars

\* Tasks that poll the semaphore with semaphore_pend(sem, 0) and post;
\* interrupt handlers that post.
PollNext ==
    \/ SVCallHandler
    \/ PendSVHandler
    \/ Tick
    \/ \E t \in Task : SetPendSV(t)
    \/ \E t \in UserTask : TaskYield(t)
    \/ \E t \in Task : LockTry(t) \/ LockRel(t) \/ LockTake(t)
    \/ \E t \in Task : DropLoad(t) \/ DropStore(t)
    \/ \E t \in UserTask : TaskPendCall(t, 0)
    \/ \E t \in Task : PendCheck(t) \/ PendWait(t) \/ PendWoke(t) \/ PendCheck2(t)
                       \/ PendReturn(t)
    \/ \E t \in UserTask : TaskPostCall(t)
    \/ \E t \in Task : PostCheck(t) \/ PostUnblock(t)
    \/ IsrPost

PollSpec == PostInit /\ [][PollNext]_vars

\* ------------------------------------------------------------ list_test.c
\* main of list_test.c: calls of the list functions on the test list.  Every
\* call records in lcall its name, its element argument, its iterator, the
\* list before the call (head to tail), its return value and the elements the
\* iterator and the destructor were called with.
TestSeq == Walk(elements, test_list).seq

ListIdle == UNCHANGED <<schedvars, semvars, alloc, started, SYS_USE_PREEMPTION,
                        stack_ptr, stacks, oob, semalloc, creg, monitor, pc, lph,
                        arg, dticks>>

\* list = list_append(list, elements + e, &elements[e].state)
ListAppend(e) ==
    /\ elements.next[e] = NULL
    /\ LET r == list_append(elements, test_list, e)
       IN /\ elements' = r.h
          /\ test_list' = r.list
          /\ lcall' = [NoCall EXCEPT !.op = "list_append", !.elem = e,
                                     !.before = TestSeq, !.ret = r.list]
    /\ ListIdle

\* list = list_prepend(list, elements + e, &elements[e].state)
ListPrepend(e) ==
    /\ elements.next[e] = NULL
    /\ LET r == list_prepend(elements, test_list, e)
       IN /\ elements' = r.h
          /\ test_list' = r.list
          /\ lcall' = [NoCall EXCEPT !.op = "list_prepend", !.elem = e,
                                     !.before = TestSeq, !.ret = r.list]
    /\ ListIdle

\* list = list_remove(list, &elements[e].state), e being in the list
ListRemove(e) ==
    /\ elements.next[e] # NULL
    /\ LET r == list_remove(elements, test_list, e)
       IN /\ elements' = r.h
          /\ test_list' = r.list
          /\ lcall' = [NoCall EXCEPT !.op = "list_remove", !.elem = e,
                                     !.before = TestSeq, !.ret = r.list]
    /\ ListIdle

\* ret = list_iterate(list, itr)
ListIterate(itr) ==
    /\ LET r == list_iterate(elements, test_list, itr)
       IN lcall' = [NoCall EXCEPT !.op = "list_iterate", !.itr = itr,
                                  !.before = TestSeq, !.ret = r.ret,
                                  !.calls = r.calls]
    /\ UNCHANGED <<elements, test_list>>
    /\ ListIdle

\* list = list_filter(list, itr, destructor)
ListFilter(itr) ==
    /\ LET r == list_filter(elements, test_list, itr, <<>>, <<>>)
       IN /\ elements' = r.h
          /\ test_list' = r.list
          /\ lcall' = [NoCall EXCEPT !.op = "list_filter", !.itr = itr,
                                     !.before = TestSeq, !.ret = r.list,
                                     !.calls = r.calls, !.freed = r.freed]
    /\ ListIdle

\* Test 7: while (list != NULL) { ret = list_get_head(list); list =
\* list_remove(list, &ret->state); i++; }.  removed is the sequence of heads
\* taken so far.
RECURSIVE RemoveAll(_, _, _)
RemoveAll(h, list, removed) ==
    IF list = NULL THEN [h |-> h, list |-> list, removed |-> removed]
    ELSE LET ret == list_get_head(list)
             r == list_remove(h, list, ret)
         IN RemoveAll(r.h, r.list, Append(removed, ret))

ListRemoveAll ==
    /\ test_list # NULL
    /\ LET r == RemoveAll(elements, test_list, <<>>)
       IN /\ elements' = r.h
          /\ test_list' = r.list
          /\ lcall' = [NoCall EXCEPT !.op = "remove_all", !.before = TestSeq,
                                     !.ret = r.list, !.calls = r.removed]
    /\ ListIdle

ListNext ==
    \/ \E e \in Elem : ListAppend(e) \/ ListPrepend(e) \/ ListRemove(e)
    \/ \E itr \in [Elem -> list_return_t] : ListIterate(itr) \/ ListFilter(itr)
    \/ ListRemoveAll

\* The test program creates no task and no semaphore of its own; the kernel
\* state is the one of the default build and stays as it is.
ListInit ==
    /\ InitSched([i \in 1..NInit |-> DEFAULT_PRIORITY], NInit)
    /\ SYS_USE_PREEMPTION = PREEMPTION_ENABLED
    /\ sem = semaphore_create_binary
    /\ bal = sem.value

ListSpec == ListInit /\ [][ListNext]_vars

\* The same workload with tasks that also call semaphore_destroy.
SemDestroyNext ==
    \/ PostNext
    \/ \E t \in UserTask : SemDestroyCall(t) \/ SemDestroyCheck(t) \/ SemDestroyReturn(t)

SemDestroySpec == PostInit /\ [][SemDestroyNext]_vars

Next == SchedNext \/ SemNext

\* Every operation, in the build without preemption: no task is switched
\* out while it holds the semaphore lock, so get_semaphore_lock never finds
\* the lock held.
NoPreemptNext == SchedNext \/ SemCalls

NoPreemptSpec == NoPreemptInit /\ [][NoPreemptNext]_vars

Spec == Init /\ [][Next]_vars

\* The workload of task creation: tasks that yield and call task_create with
\* valid and invalid arguments while malloc succeeds or fails; the idle task
\* is never dispatched.
CreateNext ==
    \/ SVCallHandler
    \/ PendSVHandler
    \/ Tick
    \/ \E t \in Task : SetPendSV(t)
    \/ \E t \in UserTask : TaskYield(t)
    \/ \E t \in UserTask, entry \in BOOLEAN, p \in CfgPriorities, m \in MallocOutcomes :
           TaskCreateCfg(t, entry, p, m)
    \/ \E t \in UserTask : CreateReturn(t)

CreateSpec == Init /\ [][CreateNext]_vars

\* The workload of task destruction: tasks that yield, sleep, pend for ever
\* on the semaphore and destroy each other.
DestroyNext ==
    \/ SVCallHandler
    \/ PendSVHandler
    \/ Tick
    \/ \E t \in Task : SetPendSV(t) \/ DelayReturn(t)
    \/ \E t \in UserTask : TaskYield(t)
    \/ \E t \in UserTask, d \in 1..MaxDelay : TaskDelay(t, d)
    \/ IdleYield
    \/ \E t \in Task : LockTry(t) \/ LockRel(t) \/ LockTake(t)
    \/ \E t \in Task : DropLoad(t) \/ DropStore(t)
    \/ \E t \in UserTask : TaskPendCall(t, SYS_TIMEOUT_INF)
    \/ \E t \in Task : PendCheck(t) \/ PendWait(t) \/ PendReturn(t)
    \/ \E t, tsk \in UserTask : TaskDestroy(t, tsk)

DestroySpec == Init /\ [][DestroyNext]_vars

\* ------------------------------------------------------------ round robin
\* The workload of the round-robin test: every slot holds a task, and the
\* tasks do nothing but yield, so the idle task is never dispatched.
RRInit ==
    /\ \E pr \in [UserTask -> PrioChoices] : pr[1] = DEFAULT_PRIORITY /\ InitSched(pr, NTasks)
    /\ SYS_USE_PREEMPTION = PREEMPTION_ENABLED
    /\ sem = semaphore_create_binary
    /\ bal = sem.value

RRNext ==
    \/ SVCallHandler
    \/ PendSVHandler
    \/ Tick
    \/ \E t \in Task : SetPendSV(t)
    \/ \E t \in UserTask : TaskYield(t)

RRSpec == RRInit /\ [][RRNext]_vars

\* ------------------------------------------------------------ handshake
\* The workload of sys/test/semaphore: fg_task pends for ever on a binary
\* semaphore that starts at 0, bg_task sleeps and posts in a loop.
Consumer == 2
Producers == UserTask \ {Consumer}

HsInit == Init /\ sem = semaphore_create_binary

\* fg_task: semaphore_pend(semaphore_handle, SYS_TIMEOUT_INF)
FgPend == TaskPendCall(Consumer, SYS_TIMEOUT_INF)

\* bg_task: task_delay(d)
BgDelay(t, d) == t \in Producers /\ TaskDelay(t, d)

\* bg_task: back from task_delay, the call of semaphore_post
BgPost(t) ==
    /\ CanStep(t) /\ t \in Producers /\ pc[t] = "delay_ret"
    /\ pc' = [pc EXCEPT ![t] = "post_get"]
    /\ lph' = [lph EXCEPT ![t] = "try"]
    /\ arg' = [arg EXCEPT ![t] = 0]
    /\ dticks' = [dticks EXCEPT ![t] = 0]
    /\ woken' = [woken EXCEPT ![t] = FALSE]
    /\ UNCHANGED <<tcb, alloc, lnk, active_task, ready_tasks, delayed_tasks,
                   blocked_tasks, exited_tasks, pendsv, started, SYS_USE_PREEMPTION, stack_ptr, createvars, monitor, halted,
                   semvars>>

\* The instructions task t executes in thread mode.
HsStep(t) ==
    \/ t = Consumer /\ FgPend
    \/ \E d \in 1..MaxDelay : BgDelay(t, d)
    \/ BgPost(t)
    \/ SetPendSV(t)
    \/ t = IdleTask /\ IdleYield
    \/ LockTry(t) \/ LockRel(t) \/ LockTake(t)
    \/ DropLoad(t) \/ DropStore(t)
    \/ PendCheck(t) \/ PendWait(t) \/ PendWoke(t) \/ PendCheck2(t) \/ PendReturn(t)
    \/ PostCheck(t) \/ PostUnblock(t)

HsNext == SVCallHandler \/ PendSVHandler \/ Tick \/ \E t \in Task : HsStep(t)

\* get_semaphore_lock succeeds: no exception came between ldrexb and strexb.
LockGain(t) == LockTake(t) /\ pc'[t] # pc[t]

\* Pending exceptions are taken, the SysTick timer keeps firing, a task that
\* is given the CPU again and again executes its next instruction, and
\* exceptions do not fall between every ldrexb and its strexb for ever.
HsFair ==
    /\ WF_vars(SVCallHandler)
    /\ WF_vars(PendSVHandler)
    /\ SF_vars(Tick)
    /\ \A t \in Task : SF_vars(HsStep(t)) /\ SF_vars(LockGain(t))

HandshakeSpec == HsInit /\ [][HsNext]_vars /\ HsFair

\* Pending exceptions are taken, and a task that is given the CPU again and
\* again executes its next instruction and gets the lock it spins for.
WakeFair ==
    /\ WF_vars(SVCallHandler)
    /\ WF_vars(PendSVHandler)
    /\ \A t \in Task : SF_vars(WakeStep(t)) /\ SF_vars(LockGain(t))

WakeSpec == WakeInit /\ [][WakeNext]_vars /\ WakeFair

\* The same workload with the button interrupt of the demo posting as well.
LockNext == WakeNext \/ IsrPost

LockSpec == WakeInit /\ [][LockNext]_vars /\ WakeFair

\* ------------------------------------------------------------ properties
\* A state observed between kernel operations: scheduling has started, no
\* exception is pending and no task is inside a kernel call.
RestPcs == {"run", "idle_loop", "dead", "free"}
BetweenOps ==
    /\ started /\ halted = "no" /\ ~pendsv
    /\ \A t \in Task : pc[t] \in RestPcs

ActiveTcbs == {t \in alloc : tcb[t].state = "TASK_ACTIVE"}

\* C1: once the first task has been dispatched, at every observation between
\* kernel operations exactly one task control block has state TASK_ACTIVE and
\* active_task points to it.
C1_SingleActive ==
    BetweenOps => /\ Cardinality(ActiveTcbs) = 1
                  /\ active_task \in ActiveTcbs

\* The period in which an exited task awaits reaping: its control block is on
\* exited_tasks, still marked TASK_ACTIVE, next to the task now running.
C1_ExitedStillActive ==
    /\ BetweenOps
    /\ exited_tasks # NULL
    /\ tcb[exited_tasks].state = "TASK_ACTIVE"
    /\ active_task # NULL /\ active_task # exited_tasks
    /\ tcb[active_task].state = "TASK_ACTIVE"

\* The tasks linked into the ready queues.
ReadyMembers == UNION {Members(lnk, ready_tasks[p]) : p \in Prio}

NoHigherReady ==
    /\ active_task # NULL
    /\ \A n \in ReadyMembers : tcb[n].priority <= tcb[active_task].priority

\* C2: after every completed reschedule (select_active_task run by the start
\* handler or the switch handler) no task in a ready queue has a priority
\* strictly higher than the active task's.
C2_StrictPriority ==
    [][(SVCallHandler \/ PendSVHandler) => NoHigherReady']_vars

\* A task of lower priority runs while a task of higher priority is ready
\* and nothing is pending that would switch to it.
C2_LowerRuns ==
    /\ BetweenOps
    /\ active_task # NULL
    /\ \E n \in ReadyMembers : tcb[n].priority > tcb[active_task].priority

\* C4: a task that called task_delay(D) executes nothing after the call
\* before D ticks have occurred, unless unblock_delayed_task was applied to it.
C4_DelayAtLeast ==
    \A t \in UserTask :
        (CanStep(t) /\ pc[t] = "delay_ret" /\ ~woken[t]) => dticks[t] >= arg[t]

\* A task is about to run the statement after task_delay(D) although fewer
\* than D ticks have occurred and nobody called unblock_delayed_task on it.
C4_EarlyReturn ==
    \E t \in UserTask :
        /\ CanStep(t) /\ pc[t] = "delay_ret" /\ ~woken[t]
        /\ dticks[t] < arg[t]

\* The heads of the kernel lists: ready[0..P-1], then delayed, blocked, exited.
KernelHeads ==
    [i \in 0..(RTOS_PRIORITY_COUNT + 2) |->
        IF i < RTOS_PRIORITY_COUNT THEN ready_tasks[i]
        ELSE IF i = RTOS_PRIORITY_COUNT THEN delayed_tasks
        ELSE IF i = RTOS_PRIORITY_COUNT + 1 THEN blocked_tasks
        ELSE exited_tasks]
KernelListNames == DOMAIN KernelHeads
KernelList(x) == Members(lnk, KernelHeads[x])

\* C3: no task control block is linked into more than one of the lists
\* ready[0..P-1], blocked, delayed, exited (a control block has one pair of
\* links, so it cannot be linked twice into one list).
C3_OneListPerTask ==
    \A x, y \in KernelListNames : x # y => KernelList(x) \cap KernelList(y) = {}

\* A task control block reachable from two list heads, in a running system.
C3_InTwoLists ==
    /\ halted = "no"
    /\ \E x, y \in KernelListNames : x # y /\ KernelList(x) \cap KernelList(y) # {}

Holders == {t \in Task : pc[t] \in HoldPcs}

\* C6: never are two execution contexts both between a completed
\* get_semaphore_lock and the matching drop_semaphore_lock, and while one is,
\* the lock byte reads SEMAPHORE_LOCKED.
C6_LockExclusive ==
    /\ Cardinality(Holders) <= 1
    /\ Holders # {} => sem.lock = SEMAPHORE_LOCKED

\* One task holds the lock while another, having read it as closed, is
\* inside get_semaphore_lock.
C6_Contended ==
    \E t, u \in Task :
        /\ t # u
        /\ pc[t] \in HoldPcs
        /\ pc[u] \in GetPcs /\ lph[u] = "rel"

\* C7: semaphore_pend(sem, T) with finite T >= 1 that found value 0 and saw
\* no post during its wait returns an outcome distinguishable from success,
\* not before T ticks have elapsed, with value still 0 and its waiting entry
\* removed from the waiting list.
C7_TimeoutOutcome ==
    \A t \in UserTask :
        (arg[t] # SYS_TIMEOUT_INF /\ ~postsince[t]) =>
            /\ pc[t] = "pend_drop_done" =>
                   /\ took[t] = 0 /\ sem.value = 0
                   /\ t \notin Members(wlnk, sem.waiting_tasks)
            /\ pc[t] \in {"pend_drop_done", "pend_end"} => dticks[t] >= arg[t]
            /\ pc[t] = "pend_end" => PendResult(FALSE) # PendResult(TRUE)

\* A finite pend is returning after its timeout, no post having come.
C7_TimedOut ==
    \E t \in UserTask :
        /\ CanStep(t) /\ pc[t] = "pend_end"
        /\ arg[t] # SYS_TIMEOUT_INF /\ ~postsince[t]
        /\ dticks[t] >= arg[t] /\ took[t] = 0

\* C8: semaphore_pend(sem, SYS_TIMEOUT_INF) that found value 0 leaves its
\* loop only after a post has incremented value since it enqueued itself, and
\* every infinite pend that returns has decremented value by exactly one; a
\* wake-up that finds value 0 goes back to block_active_task.
C8_InfinitePend ==
    \A t \in UserTask :
        arg[t] = SYS_TIMEOUT_INF =>
            /\ pc[t] \in {"pend_drop_done", "pend_end"} => postsince[t] /\ took[t] = 1
            /\ pc[t] \in {"pend_drop_ret", "pend_ret"} => took[t] = 1
            /\ pc[t] = "pend_drop_loop" => went[t].live /\ took[t] = 0

\* An infinite pend that had to wait is returning after a post.
C8_WokenByPost ==
    \E t \in UserTask :
        /\ pc[t] = "pend_end" /\ arg[t] = SYS_TIMEOUT_INF
        /\ postsince[t] /\ took[t] = 1

\* C9: the value of a counting semaphore created with k is k plus the posts
\* that took effect minus the pends that acquired (bal), it is never
\* negative, and a pend that times out leaves it unchanged.
C9_CountingValue ==
    sem.type = "SEMAPHORE_COUNTING" =>
        /\ sem.value = bal
        /\ sem.value >= 0
        /\ \A t \in UserTask :
               (pc[t] \in {"pend_drop_done", "pend_end"} /\ arg[t] # SYS_TIMEOUT_INF)
               => took[t] \in {0, 1}

\* On a counting semaphore a post has taken effect with a waiter enqueued and
\* a pend is returning with the value it acquired.
C9_PostThenPend ==
    /\ sem.type = "SEMAPHORE_COUNTING"
    /\ \E t \in UserTask : pc[t] = "pend_end" /\ postsince[t] /\ took[t] = 1

\* C10: the value of a binary semaphore is 0 or 1, whatever posts and pends
\* (from tasks and from interrupt handlers) have run.
C10_BinaryValue ==
    sem.type = "SEMAPHORE_BINARY" => sem.value \in {0, 1}

\* A post found the binary semaphore full, after an interrupt handler posted.
C10_PostOnFull ==
    /\ sem.type = "SEMAPHORE_BINARY"
    /\ irqs > 0
    /\ sem.value = 1
    /\ \E t \in UserTask : pc[t] = "post_drop_noop"

\* The tasks of ready_tasks[p], head first.
ReadySeq(p) == Walk(lnk, ready_tasks[p]).seq

NonEmptyReady == {p \in Prio : ReadySeq(p) # <<>>}

TopReady == CHOOSE p \in NonEmptyReady : \A q \in NonEmptyReady : q <= p

\* A selection takes the head of the highest nonempty ready queue and appends
\* the outgoing task to the tail of the queue of its priority; the other
\* queues keep their order.
FifoStep ==
    NonEmptyReady # {} =>
        /\ active_task' = Head(ReadySeq(TopReady))
        /\ \A p \in Prio :
               ReadySeq(p)' =
                   LET base == IF p = TopReady THEN Tail(ReadySeq(p)) ELSE ReadySeq(p)
                   IN IF active_task # NULL /\ tcb[active_task].priority = p
                      THEN Append(base, active_task)
                      ELSE base

\* C11: among tasks that only yield, the first selection takes the task
\* created first at the highest priority, and every selection takes the head
\* of the highest nonempty ready queue while the yielding or preempted task
\* re-enters its queue at the tail, so that equal-priority tasks run in
\* rotation (A, B, A, B).
C11_RoundRobin ==
    [][/\ (SVCallHandler \/ PendSVHandler) => FifoStep
       /\ (~started /\ SVCallHandler) => active_task' = 1]_vars

\* Three tasks of equal priority, created in the order 1, 2, 3: tasks 1 and
\* 2 have run and yielded in turn, and task 3 runs with 1 and 2 queued
\* behind it in that order.
C11_ThirdInTurn ==
    /\ BetweenOps
    /\ \A t \in UserTask : tcb[t].priority = DEFAULT_PRIORITY
    /\ active_task = 3
    /\ ReadySeq(DEFAULT_PRIORITY) = <<1, 2>>

\* The waiting entries of the semaphore, head first (the entry of task t is t).
WaitSeq == Walk(wlnk, sem.waiting_tasks).seq

\* The tasks a step moves into a ready queue.
MadeReady(u) == u \in ReadyMembers' /\ u \notin ReadyMembers

\* C12: waiters acquire in the order in which they enqueued: a waiter that
\* takes the value after its wait is the one whose entry is at the head of
\* the waiting list, and a post that makes a task ready makes ready the task
\* of the head entry.
C12_WaiterFifo ==
    [][/\ \A t \in UserTask :
              (PendCheck2(t) /\ took'[t] = 1) => (WaitSeq # <<>> /\ Head(WaitSeq) = t)
       /\ \A u \in Task :
              ((IsrPost \/ \E t \in UserTask : PostUnblock(t)) /\ MadeReady(u))
              => (WaitSeq # <<>> /\ went[Head(WaitSeq)].task = u)]_vars

\* The waiter that enqueued second is back from its wait and holds the lock
\* with the value posted, about to take it, while the entry of the waiter
\* that enqueued first is still ahead of its own in the waiting list.
C12_Overtaken ==
    \E t, u \in UserTask :
        /\ t # u
        /\ halted = "no"
        /\ WaitSeq = <<u, t>>
        /\ CanStep(t) /\ pc[t] = "pend_chk2" /\ PendGot(sem.value)
        /\ pc[u] = "pend_woke"

\* C13: a pend never takes the value while a task that pended earlier is
\* still in the waiting list: the first test of value succeeds only with
\* the waiting list empty, and the test after a wait only for the task whose
\* entry is at the head.
C13_ServedAfterWaiters ==
    [][\A t \in UserTask :
          /\ (PendCheck(t) /\ took'[t] = 1) => WaitSeq = <<>>
          /\ (PendCheck2(t) /\ took'[t] = 1) => (WaitSeq # <<>> /\ Head(WaitSeq) = t)]_vars

\* A pend call has taken the value at its first test, without waiting, while
\* a task that pended earlier is still enqueued and waiting.
C13_Barged ==
    \E t, u \in UserTask :
        /\ t # u
        /\ halted = "no"
        /\ pc[t] = "pend_drop_ret" /\ took[t] = 1
        /\ WaitSeq = <<u>> /\ went[u].live
        /\ pc[u] = "pend_woke"

\* The tasks on the delayed list.
DelayedMembers == Members(lnk, delayed_tasks)

\* What one tick does to the delayed task u whose remaining count is b.
CountedDown(u, b) ==
    IF b > 1
    THEN /\ u \in DelayedMembers'
         /\ tcb'[u].blockstate = b - 1
    ELSE /\ u \notin DelayedMembers'
         /\ tcb'[u].blockstate = 0
         /\ u \in Members(lnk', ready_tasks'[tcb[u].priority])

\* The tasks on the delayed list that unblock_delayed_task has not been
\* applied to since they asked for their delay.
DelayedUnwoken == {u \in DelayedMembers : ~woken[u]}

\* C14: every task on the delayed list that unblock_delayed_task has not
\* woken has a remaining count of at least 1, and a tick lowers the count of
\* each of them by one, keeps on the delayed list those whose count stays
\* above zero and moves every one whose count reaches zero to the ready queue
\* of its priority in that same tick; so such a task leaves the list in the
\* D-th tick after it entered it with count D.
C14_TickCountdown ==
    [][/\ \A u \in DelayedUnwoken : tcb[u].blockstate >= 1
       /\ Tick => \A u \in DelayedUnwoken : CountedDown(u, tcb[u].blockstate)]_vars

\* A task whose timed pend put it on the delayed list with a count of 1 has
\* been selected from a ready queue and runs, still on the delayed list, no
\* tick having counted it down.
C14_DelayedTaskRuns ==
    /\ halted = "no" /\ ~pendsv
    /\ active_task \in DelayedUnwoken
    /\ tcb[active_task].state = "TASK_ACTIVE"
    /\ tcb[active_task].blockstate >= 1
    /\ dticks[active_task] = 0

\* A step in which semaphore_post reaches its wake-up call.
PostStep == IsrPost \/ \E t \in UserTask : PostUnblock(t)

\* The task the next selection will take.
NextUp == Head(ReadySeq(TopReady))

Higher(u) == active_task # NULL /\ tcb[u].priority > tcb[active_task].priority

\* C15: when a post makes a waiter ready, then with preemption enabled and
\* the waiter's priority above the active task's a context switch is pending
\* when the wake-up call ends and the waiter is the task it will select (no
\* task code runs while the switch is pending); otherwise no switch is
\* requested and the active task stays.  The switch handler runs the task
\* that was due to be selected.
C15_PostPreempts ==
    [][/\ \A u \in Task :
              (PostStep /\ MadeReady(u)) =>
                  IF SYS_USE_PREEMPTION = PREEMPTION_ENABLED /\ Higher(u)
                  THEN pendsv' /\ (NextUp = u)'
                  ELSE ~pendsv' /\ active_task' = active_task
       /\ (PendSVHandler /\ NonEmptyReady # {}) => active_task' = NextUp]_vars

\* A post from an interrupt handler has made the waiter ready while the
\* idle task is active, the switch it requested is pending, and the task the
\* switch will select is not the waiter but a task that yielded earlier.
C15_WaiterPassedOver ==
    \E u \in UserTask :
        /\ SYS_USE_PREEMPTION = PREEMPTION_ENABLED
        /\ halted = "no" /\ pendsv /\ irqs > 0
        /\ active_task = IdleTask
        /\ pc[u] = "pend_woke" /\ arg[u] = SYS_TIMEOUT_INF /\ postsince[u]
        /\ u \in ReadyMembers
        /\ NextUp # u /\ pc[NextUp] = "run"

\* The set_pendsv() that ends the active task's own task_yield, task_delay or
\* block_active_task (the latter two also inside semaphore_pend).
OwnSwitchRequest == \E t \in Task : SetPendSV(t) /\ t = active_task

\* C16: with preemption disabled a context switch is requested only by the
\* active task's own task_yield, task_delay or block_active_task, the active
\* task is replaced only by the switch that follows or by the dispatch after
\* its exit, and no tick and no semaphore_post (with its unblock_task or
\* unblock_delayed_task) requests a switch or changes the active task.
C16_NoPreemption ==
    [][/\ (~pendsv /\ pendsv') => OwnSwitchRequest
       /\ active_task' # active_task =>
              \/ pendsv /\ PendSVHandler
              \/ SVCallHandler
              \/ \E t \in UserTask : TaskExit(t) /\ t = active_task
       /\ (Tick \/ PostStep) => (pendsv' = pendsv /\ active_task' = active_task)]_vars

\* In the build without preemption a task of priority 4 keeps the CPU after
\* a tick has moved a task of priority 5 from the delayed list to its ready
\* queue.
C16_HigherWaits ==
    \E t, u \in UserTask :
        /\ SYS_USE_PREEMPTION = PREEMPTION_DISABLED
        /\ CanStep(t) /\ pc[t] = "run"
        /\ active_task = t /\ tcb[t].state = "TASK_ACTIVE"
        /\ tcb[u].priority > tcb[t].priority
        /\ u \in ReadyMembers /\ pc[u] = "delay_ret"
        /\ tcb[u].blockstate = 0 /\ dticks[u] >= arg[u]

\* The saved stack pointer of task t has entered the padding.
Overflowed(t) == stack_ptr[t] <= stack_softend

\* Task t is linked in a ready queue, the delayed list or the blocked list.
Schedulable(t) ==
    t \in ReadyMembers \cup Members(lnk, delayed_tasks) \cup Members(lnk, blocked_tasks)

\* C17: a context switch whose outgoing task has its stack pointer at or
\* below stack_softend leaves that task in no list the scheduler selects
\* from, a task in that condition that is not running is never made the
\* active task, and the switch still hands the processor to a task.
C17_OverflowKilled ==
    [][\A t \in UserTask :
          /\ (PendSVHandler /\ active_task = t /\ Overflowed(t))
                => (~Schedulable(t))' /\ active_task' \in Task \ {t}
          /\ (active_task # t /\ Overflowed(t)) => active_task' # t]_vars

\* A task that yielded with its stack pointer below stack_softend has been
\* switched out and sits in its ready queue.
C17_OverflowedStillReady ==
    \E t \in UserTask :
        /\ halted = "no" /\ ~pendsv
        /\ stack_ptr[t] < stack_softend
        /\ active_task \in Task \ {t}
        /\ tcb[t].state = "TASK_READY"
        /\ t \in Members(lnk, ready_tasks[tcb[t].priority])

\* The arguments and malloc results with which task_create has to fail.
MustFail(entry, p, m) == ~entry \/ p >= RTOS_PRIORITY_COUNT \/ m # "both"

\* C18: a task_create call with a null entry, a priority of
\* RTOS_PRIORITY_COUNT or more, or a failing allocation returns the null
\* handle, leaves every ready queue and every list link as it was, uses no
\* word outside ready_tasks[0..P-1] and leaves allocated exactly what was
\* allocated before the call.
C18_CreateRejects ==
    [][\A t \in UserTask, entry \in BOOLEAN, p \in CfgPriorities, m \in MallocOutcomes :
          (TaskCreateCfg(t, entry, p, m) /\ MustFail(entry, p, m))
              => /\ pc'[t] = "create_null"
                 /\ ready_tasks' = ready_tasks /\ lnk' = lnk /\ tcb' = tcb
                 /\ ~oob'
                 /\ alloc' = alloc /\ stacks' = stacks]_vars

\* task_create was called with priority RTOS_PRIORITY_COUNT, returned a
\* handle and used the word behind ready_tasks as the task's ready list.
C18_CreatedOutOfRange ==
    \E t, n \in UserTask :
        /\ halted = "no"
        /\ pc[t] = "create_ok"
        /\ oob
        /\ n \in alloc \cap stacks
        /\ tcb[n].state = "TASK_READY" /\ tcb[n].priority = RTOS_PRIORITY_COUNT
        /\ n \notin ReadyMembers

\* The contents, in order, of the kernel list x.
KernelSeq(x) == Walk(lnk, KernelHeads[x]).seq

\* C19: task_destroy of a task that is not the active one leaves it linked
\* in no kernel list, and every list it was not on keeps its contents and
\* order.
C19_DestroyUnlinks ==
    [][\A t, tsk \in UserTask :
          TaskDestroy(t, tsk)
              => /\ \A x \in KernelListNames : tsk \notin KernelList(x)'
                 /\ \A x \in KernelListNames :
                        tsk \notin KernelList(x) => KernelSeq(x)' = KernelSeq(x)]_vars

\* A destroyed task's freed control block is still on the delayed list.
C19_FreedOnDelayedList ==
    \E tsk \in UserTask :
        /\ tsk \notin alloc /\ pc[tsk] = "free"
        /\ tsk \in Members(lnk, delayed_tasks)
        /\ tcb[tsk].state = "TASK_DELAYED"

\* Task t is linked in the exited list and in no other kernel list.
OnlyExited(t) ==
    /\ t \in Members(lnk, exited_tasks)
    /\ t \notin ReadyMembers \cup Members(lnk, delayed_tasks) \cup Members(lnk, blocked_tasks)

\* Task t has destroyed itself and is not reaped yet.
Exiting(t) == pc[t] \in {"destroy_svc", "dead"}

\* C20: the active task's task_destroy of itself (also reached by returning
\* from the entry function) puts it on the exited list and on no other list,
\* where it stays until it is reaped; the SVCall that follows makes the head
\* of the highest-priority nonempty ready queue the active task; and the
\* exited task is never the active task again.
C20_ExitHandsOver ==
    [][\A t \in UserTask :
          /\ TaskExit(t) => OnlyExited(t)' /\ active_task' = NULL
          /\ (Exiting(t) /\ Exiting(t)') => OnlyExited(t)'
          /\ (pc[t] = "destroy_svc" /\ SVCallHandler)
                => active_task' = NextUp /\ tcb'[NextUp].state = "TASK_ACTIVE"
          /\ Exiting(t) => active_task' # t /\ pc'[t] \in {"destroy_svc", "dead", "free"}]_vars

\* A task that destroyed itself is on the exited list and has been made the
\* active task again by the SVCall of its own task_destroy.
C20_ExitedDispatched ==
    \E t \in UserTask :
        /\ halted = "no"
        /\ pc[t] = "dead"
        /\ t \in Members(lnk, exited_tasks)
        /\ active_task = t
        /\ tcb[t].state = "TASK_ACTIVE"

\* The positions of a task inside semaphore_destroy.
DestroyPcs == {"destroy_get", "destroy_chk", "destroy_drop", "destroy_badparam", "destroy_ok"}

\* A step of task t inside a semaphore call.
DestroyStep(t) ==
    \/ LockTry(t) \/ LockRel(t) \/ LockTake(t)
    \/ SemDestroyCheck(t)
    \/ DropLoad(t) \/ DropStore(t)

\* C21: semaphore_destroy with the waiting list nonempty frees nothing and
\* changes neither value, kind nor waiting list, and returns ERR_BADPARAM
\* with the lock open; with the waiting list empty it frees the semaphore
\* and returns SYS_OK.
C21_DestroyOutcome ==
    [][\A t \in UserTask :
          /\ SemDestroyCheck(t)
                => IF WaitSeq # <<>>
                   THEN pc'[t] = "destroy_drop" /\ semalloc' /\ sem' = sem
                   ELSE pc'[t] = "destroy_ok" /\ ~semalloc'
          /\ (pc[t] \in DestroyPcs /\ DestroyStep(t))
                => /\ sem'.value = sem.value /\ sem'.type = sem.type
                   /\ sem'.waiting_tasks = sem.waiting_tasks /\ wlnk' = wlnk
          /\ (pc[t] = "destroy_drop" /\ pc'[t] = "destroy_badparam")
                => semalloc' /\ sem'.lock = SEMAPHORE_UNLOCKED]_vars

\* semaphore_destroy has returned ERR_BADPARAM to its caller while another
\* task waits on the semaphore, which is still allocated and unlocked.
C21_RefusedWithWaiter ==
    \E t, u \in UserTask :
        /\ t # u /\ halted = "no"
        /\ pc[t] = "destroy_badparam"
        /\ WaitSeq = <<u>> /\ went[u].live
        /\ semalloc /\ sem.lock = SEMAPHORE_UNLOCKED

\* What a semaphore_post may not touch when it is a no-op.
PostFrame == <<sem.value, sem.type, sem.waiting_tasks, wlnk, went, tcb, lnk, active_task,
               ready_tasks, delayed_tasks, blocked_tasks, exited_tasks, pendsv>>

\* C22: a semaphore_post that finds a binary semaphore at 1, made by a task
\* or by an interrupt handler, changes neither the value, the waiting list,
\* any task's state nor any scheduler list, requests no context switch, and
\* the task's call returns with the lock open.
C22_PostOnFullNoop ==
    [][/\ \A t \in UserTask :
            /\ (PostCheck(t) /\ PostFull(sem))
                  => pc'[t] = "post_drop_noop" /\ PostFrame' = PostFrame
            /\ (pc[t] = "post_drop_noop" /\ (DropLoad(t) \/ DropStore(t)))
                  => /\ PostFrame' = PostFrame
                     /\ pc'[t] \in {"post_drop_noop", "run"}
                     /\ pc'[t] = "run" => sem'.lock = SEMAPHORE_UNLOCKED
       /\ (IsrPost /\ PostFull(sem) /\ sem.lock = SEMAPHORE_UNLOCKED)
             => PostFrame' = PostFrame /\ sem'.lock = SEMAPHORE_UNLOCKED]_vars

\* A task's post is on the no-op path of a binary semaphore at 1 while a
\* task that pended earlier is blocked on the waiting list.
C22_NoopWithWaiter ==
    \E t, u \in UserTask :
        /\ t # u /\ halted = "no"
        /\ sem.type = "SEMAPHORE_BINARY" /\ sem.value = 1
        /\ pc[t] = "post_drop_noop" /\ lph[t] = "dstore"
        /\ WaitSeq = <<u>> /\ tcb[u].state = "TASK_BLOCKED"
        /\ u \in Members(lnk, blocked_tasks)

\* C23: a task that has called block_active_task executes the statement
\* after the call only once unblock_task has been called for it; in a
\* workload where nothing calls unblock_task, no task ever gets past its
\* block_active_task call, whatever ticks arrive.
C23_BlockedUntilUnblocked ==
    [][\A t \in UserTask : ~(PendWoke(t) /\ arg[t] = SYS_TIMEOUT_INF)]_vars

\* A task is past its block_active_task call, running, though nothing posted
\* to the semaphore and the blocked list is empty.
C23_RanOnUnblocked ==
    \E t \in UserTask :
        /\ halted = "no"
        /\ pc[t] = "pend_get2" /\ arg[t] = SYS_TIMEOUT_INF
        /\ active_task = t /\ tcb[t].state = "TASK_ACTIVE"
        /\ sem.value = 0 /\ bal = 0
        /\ blocked_tasks = NULL

\* The places of semaphore_pend between its two critical sections: the lock
\* is free and the caller's entry, if it made one, is on the waiting list.
PollOpenPcs == {"pend_wait", "pend_woke", "pend_get2"}

\* C24: semaphore_pend(sem, 0) leaves no waiting entry that another context
\* can observe or act on: whenever the caller of a pend with delay 0 is
\* outside its critical sections it has no live entry on the waiting list, and
\* no post has applied unblock_delayed_task to it.
C24_PollEntryHidden ==
    \A t \in UserTask :
        (arg[t] = 0 /\ pc[t] \in PollOpenPcs) => (~went[t].live /\ ~woken[t])

\* A post has found the entry of a running pend(0) caller and has linked the
\* caller, still the active task, into its ready queue.
C24_PollEntryUnblocked ==
    \E t \in UserTask :
        /\ halted = "no"
        /\ arg[t] = 0 /\ pc[t] \in PollOpenPcs
        /\ went[t].live /\ t \in Members(wlnk, sem.waiting_tasks)
        /\ woken[t] /\ active_task = t
        /\ t \in Members(lnk, ready_tasks[tcb[t].priority])

\* The position at which a caller reading the contract expects list_iterate
\* to stop on the list b: the first element with LST_BRK, else the tail.
BrkAt(b, itr) == {i \in 1..Len(b) : itr[b[i]] = LST_BRK}
StopAt(b, itr) ==
    IF BrkAt(b, itr) = {} THEN Len(b)
    ELSE CHOOSE i \in BrkAt(b, itr) : \A j \in BrkAt(b, itr) : i <= j

\* C25: list_iterate(list, f) calls f on the elements from the head on, in
\* order, up to and including the first one for which f returns LST_BRK, and
\* returns that element; when f never returns LST_BRK it calls f on every
\* element and returns the tail; on the empty list it returns null without
\* calling f.
C25_IterateToBrk ==
    lcall.op = "list_iterate" =>
        LET b == lcall.before
            n == StopAt(b, lcall.itr)
        IN /\ lcall.calls = SubSeq(b, 1, n)
           /\ lcall.ret = (IF b = <<>> THEN NULL ELSE b[n])

\* list_iterate has stopped at the head of a list of two or more elements,
\* none of which has LST_BRK: the callback returned LST_REM for the head.
C25_StoppedOnRem ==
    /\ lcall.op = "list_iterate"
    /\ Len(lcall.before) >= 2
    /\ BrkAt(lcall.before, lcall.itr) = {}
    /\ lcall.itr[lcall.before[1]] = LST_REM
    /\ lcall.calls = <<lcall.before[1]>>
    /\ lcall.ret = lcall.before[1]

\* The sequence s without its element e.
Without(s, e) == SelectSeq(s, LAMBDA x : x # e)

\* C26: list_remove of a node of the list leaves the other elements in their
\* order; the head stays unless it was the removed node, and then its
\* successor is the head; removing the only element gives the null list; and
\* removing the head again and again takes the n elements in head-to-tail
\* order and ends with the null list after n removals.
C26_RemoveKeepsOrder ==
    /\ lcall.op = "list_remove" =>
           LET b == lcall.before
           IN /\ TestSeq = Without(b, lcall.elem)
              /\ Walk(elements, test_list).end = "ring"
              /\ lcall.ret = test_list
              /\ test_list = (IF lcall.elem # b[1] THEN b[1]
                              ELSE IF Len(b) = 1 THEN NULL ELSE b[2])
              /\ elements.next[lcall.elem] = NULL
    /\ lcall.op = "remove_all" =>
           /\ lcall.calls = lcall.before
           /\ test_list = NULL
           /\ \A e \in Elem : elements.next[e] = NULL

\* The head of a list of three elements has been removed, and a whole list of
\* three has been taken apart head by head.
C26_HeadRemoved ==
    \/ /\ lcall.op = "list_remove"
       /\ Len(lcall.before) = 3
       /\ lcall.elem = lcall.before[1]
       /\ TestSeq = Tail(lcall.before)
    \/ /\ lcall.op = "remove_all"
       /\ Len(lcall.calls) = 3

\* C27: list_prepend gives the list whose head is the new element, followed
\* by the previous elements in their order, the previous tail still the tail;
\* list_append gives the same ring with the head unchanged and the new element
\* as tail.
C27_AddEnds ==
    /\ lcall.op = "list_prepend" =>
           /\ TestSeq = <<lcall.elem>> \o lcall.before
           /\ Walk(elements, test_list).end = "ring"
           /\ list_get_head(test_list) = lcall.elem
           /\ list_get_tail(elements, test_list) =
                  (IF lcall.before = <<>> THEN lcall.elem
                   ELSE lcall.before[Len(lcall.before)])
    /\ lcall.op = "list_append" =>
           /\ TestSeq = Append(lcall.before, lcall.elem)
           /\ Walk(elements, test_list).end = "ring"
           /\ list_get_head(test_list) =
                  (IF lcall.before = <<>> THEN lcall.elem ELSE lcall.before[1])
           /\ list_get_tail(elements, test_list) = lcall.elem
    /\ \A e \in Elem :
           elements.next[e] = NULL =>
               list_append(elements, test_list, e).h
                   = list_prepend(elements, test_list, e).h

\* An element has been prepended to a list of two.
C27_Prepended ==
    /\ lcall.op = "list_prepend"
    /\ Len(lcall.before) = 2
    /\ TestSeq = <<lcall.elem>> \o lcall.before

\* Every element of s occurs in it once, and s has the elements of the set S.
OnceEach(s, S) ==
    /\ {s[i] : i \in 1..Len(s)} = S
    /\ Len(s) = Cardinality(S)

\* C28: list_filter with an iterator that returns LST_REM or LST_CONT for the
\* elements of the list leaves the LST_CONT elements in their order (the null
\* list when there is none), calls the iterator once for every element of the
\* list and the destructor once for every removed element and for no other.
C28_FilterKeepsCont ==
    (/\ lcall.op = "list_filter"
     /\ \A i \in 1..Len(lcall.before) : lcall.itr[lcall.before[i]] # LST_BRK) =>
        LET b == lcall.before
            all == {b[i] : i \in 1..Len(b)}
        IN /\ TestSeq = SelectSeq(b, LAMBDA x : lcall.itr[x] = LST_CONT)
           /\ Walk(elements, test_list).end = "ring"
           /\ lcall.ret = test_list
           /\ (TestSeq = <<>>) = (test_list = NULL)
           /\ OnceEach(lcall.calls, all)
           /\ OnceEach(lcall.freed, {e \in all : lcall.itr[e] = LST_REM})

\* list_filter has removed the first two elements of a list of three and has
\* kept the third.
C28_LeadingRemoved ==
    /\ lcall.op = "list_filter"
    /\ Len(lcall.before) = 3
    /\ lcall.itr[lcall.before[1]] = LST_REM
    /\ lcall.itr[lcall.before[2]] = LST_REM
    /\ lcall.itr[lcall.before[3]] = LST_CONT
    /\ TestSeq = <<lcall.before[3]>>
    /\ Len(lcall.freed) = 2

\* C29: every task linked in ready_tasks[p] has state TASK_READY and priority
\* p, and block reason BLOCK_NONE; this holds for a task the tick handler has
\* released from the delayed list as soon as it is in its ready queue.
C29_ReadyQueueStates ==
    \A p \in Prio : \A u \in Members(lnk, ready_tasks[p]) :
        /\ tcb[u].state = "TASK_READY"
        /\ tcb[u].priority = p
        /\ tcb[u].blockstate = BLOCK_NONE

\* A task whose delay the tick handler has counted down to zero is linked in
\* the ready queue of its priority, is not the active task, and its state is
\* still TASK_DELAYED.
C29_ReleasedStillDelayed ==
    \E u \in UserTask :
        /\ halted = "no"
        /\ u \in Members(lnk, ready_tasks[tcb[u].priority])
        /\ u # active_task /\ ~woken[u]
        /\ u \notin Members(lnk, delayed_tasks)
        /\ dticks[u] >= 1
        /\ tcb[u].state = "TASK_DELAYED"
        /\ tcb[u].blockstate = BLOCK_NONE

\* C30: the tick handler requests a context switch exactly when preemption is
\* enabled and, after it has released the expired delays, a ready queue of a
\* priority strictly above the active task's is not empty; ready tasks of
\* equal or lower priority do not make the tick preempt.  A tick that finds
\* no active task (task_exit has cleared it) requests nothing.
C30_TickPreemptsIffHigher ==
    [][Tick =>
          (pendsv' <=>
              /\ SYS_USE_PREEMPTION = PREEMPTION_ENABLED
              /\ active_task # NULL
              /\ \E p \in Prio : /\ p > tcb[active_task].priority
                                 /\ ready_tasks'[p] # NULL)]_vars

\* A tick has released a task of higher priority and has preempted the active
\* task, which was not in a yielding call: the switch is pending and the
\* active task is marked TASK_READY.
C30_TickPreempted ==
    /\ halted = "no" /\ pendsv
    /\ SYS_USE_PREEMPTION = PREEMPTION_ENABLED
    /\ active_task \in UserTask
    /\ pc[active_task] = "run"
    /\ tcb[active_task].state = "TASK_READY"
    /\ \E u \in UserTask :
           /\ tcb[u].priority > tcb[active_task].priority
           /\ u \in Members(lnk, ready_tasks[tcb[u].priority])
           /\ tcb[u].state = "TASK_DELAYED"
    /\ ready_tasks[tcb[active_task].priority] = NULL

\* The places of task_create at which its change of a ready queue is partway
\* through.
CreateMidPcs == {"create_link", "create_store"}

\* The tasks linked in some scheduler list.
Listed ==
    UNION {Members(lnk, ready_tasks[p]) : p \in Prio}
        \cup Members(lnk, delayed_tasks) \cup Members(lnk, blocked_tasks)
        \cup Members(lnk, exited_tasks)

\* C31: the changes task context makes to a scheduler list are protected from
\* interrupts: the tick handler and the context-switch handler never run while
\* a task is partway through task_create's change of a ready queue.
C31_ListsProtected ==
    [][(Tick \/ PendSVHandler) => \A t \in Task : pc[t] \notin CreateMidPcs]_vars

\* task_create has returned and a task the tick released into the same ready
\* queue during the call is in no scheduler list and is not the active task.
C31_ReleasedTaskLost ==
    \E u \in UserTask :
        /\ halted = "no"
        /\ \A t \in Task : pc[t] \notin CreateMidPcs
        /\ u \in alloc /\ u # active_task /\ u \notin Listed
        /\ tcb[u].state = "TASK_DELAYED" /\ tcb[u].blockstate = BLOCK_NONE
        /\ pc[u] = "delay_ret"

\* C32: over task exits, task_destroy calls and reaps nothing is freed twice:
\* the task control block and the stack the idle task frees, and the ones
\* task_destroy frees for a task that has exited, are allocated at that moment.
C32_FreedOnce ==
    [][/\ IdleReap => list_get_head(exited_tasks) \in alloc \cap stacks
       /\ \A t, tsk \in UserTask :
              TaskDestroyExited(t, tsk) => tsk \in alloc \cap stacks]_vars

\* The idle task runs with the exited list holding a task control block that
\* task_destroy has already freed after the task's exit.
C32_FreedOnExitedList ==
    /\ halted = "no"
    /\ CanStep(IdleTask) /\ pc[IdleTask] = "idle_loop"
    /\ exited_tasks # NULL
    /\ list_get_head(exited_tasks) \notin alloc
    /\ pc[list_get_head(exited_tasks)] = "free"

\* The tasks a step has put into ready_tasks[p].
Arrived(p) == Members(lnk', ready_tasks'[p]) \ Members(lnk, ready_tasks[p])

\* What a step has added behind the old contents of ready_tasks[p].
AddedTail(p) == SubSeq(ReadySeq(p)', Len(ReadySeq(p)) + 1, Len(ReadySeq(p)'))

\* C33: a task made ready by unblock_task, by unblock_delayed_task or by the
\* tick handler goes to the tail of the ready queue of its priority: a tick
\* or a post leaves every ready queue as it was, followed by the tasks that
\* have arrived, those of one tick in the order of the delayed list.
C33_ReadyAtTail ==
    [][(Tick \/ IsrPost \/ \E t \in Task : PostUnblock(t)) =>
           \A p \in Prio :
               /\ Len(ReadySeq(p)') >= Len(ReadySeq(p))
               /\ SubSeq(ReadySeq(p)', 1, Len(ReadySeq(p))) = ReadySeq(p)
               /\ Tick => AddedTail(p) =
                              SelectSeq(Walk(lnk, delayed_tasks).seq,
                                        LAMBDA u : u \in Arrived(p))
               /\ ~Tick => Len(AddedTail(p)) <= 1]_vars

\* A post has applied unblock_delayed_task to a task that the tick had already
\* released into its ready queue: the task is linked to itself inside the
\* queue, and a task that stood behind it is no longer reached from the head.
C33_RequeuedInPlace ==
    \E u, v \in Task :
        /\ halted = "no" /\ u # v
        /\ woken[u] /\ pc[u] = "pend_woke" /\ u # active_task
        /\ u \in Members(lnk, ready_tasks[tcb[u].priority])
        /\ lnk.next[u] = u
        /\ lnk.next[v] = u /\ tcb[v].priority = tcb[u].priority
        /\ v \notin Members(lnk, ready_tasks[tcb[u].priority])

\* unblock_delayed_task is applied to u by this step, u being on the delayed
\* list with a finite pend not yet timed out.
PostWakes(u) ==
    /\ ~woken[u] /\ woken'[u]
    /\ u \in DelayedMembers
    /\ arg[u] # SYS_TIMEOUT_INF /\ went[u].live

\* C34: a post that takes effect while a task is suspended in a pend with a
\* finite timeout moves the task from the delayed list to its ready queue with
\* its delay cancelled, and when the task next runs, its pend acquires the
\* semaphore: the value goes down by one.
C34_PostBeatsTimeout ==
    [][\A u \in UserTask :
          /\ PostWakes(u) =>
                 /\ u \notin DelayedMembers'
                 /\ u \in Members(lnk', ready_tasks'[tcb[u].priority])
                 /\ tcb'[u].blockstate = BLOCK_NONE
          /\ (PendCheck2(u) /\ woken[u] /\ postsince[u]) => took'[u] = 1]_vars

\* A task woken from a timed pend by a post has run its second test and has
\* not acquired: the value it was woken for had been taken by another pend.
C34_WokenEmptyHanded ==
    \E u \in UserTask :
        /\ halted = "no"
        /\ arg[u] # SYS_TIMEOUT_INF
        /\ woken[u] /\ postsince[u]
        /\ dticks[u] < arg[u]
        /\ pc[u] = "pend_drop_done" /\ took[u] = 0
        /\ sem.value = 0

\* The waiting entry this step of semaphore_post hands to unblock_delayed_task
\* (NULL when the step is no such call): the entry a task's post has read, or
\* the head entry an interrupt handler's post finds, with a finite delay.
TimedEntry(e) == e # NULL /\ went[e].delay # SYS_TIMEOUT_INF

PostedEntry ==
    IF \E t \in Task : PostUnblock(t) /\ TimedEntry(rqe[t])
    THEN rqe[CHOOSE t \in Task : PostUnblock(t) /\ TimedEntry(rqe[t])]
    ELSE IF IsrPost /\ sem.lock = SEMAPHORE_UNLOCKED
            /\ TimedEntry(post_locked(sem).entry)
    THEN post_locked(sem).entry
    ELSE NULL

\* C35: whenever semaphore_post calls unblock_delayed_task(t), t is linked in
\* the delayed list: never a waiter whose timeout has expired, and never a
\* waiter that has enqueued its entry and is not yet on the delayed list.
C35_PostFindsDelayed ==
    [][PostedEntry # NULL => went[PostedEntry].task \in DelayedMembers]_vars

\* A post has applied unblock_delayed_task to the running task, which had
\* enqueued its waiting entry and had not yet been moved to the delayed list:
\* the active task is linked in its ready queue.
C35_UnblockedWhileRunning ==
    \E u \in UserTask :
        /\ halted = "no"
        /\ active_task = u /\ woken[u]
        /\ pc[u] \in {"pend_wait", "pend_delay_pendsv"}
        /\ arg[u] \in 1..MaxDelay
        /\ went[u].live
        /\ u \in Members(lnk, ready_tasks[tcb[u].priority])
        /\ u \notin DelayedMembers

\* A task is caught in the try_drop loop of drop_semaphore_lock: an exception
\* came between its ldrexb and its strexb, and the strexb is retried alone.
DropStuck == \E t \in Task : pc[t] \in DropPcs /\ lph[t] = "dstore" /\ ~monitor

\* The consumer is eventually scheduled: it does not sit in a ready queue
\* for ever.
ConsumerScheduled ==
    (Consumer \in UNION {Members(lnk, ready_tasks[p]) : p \in Prio})
        ~> (active_task = Consumer)

\* C5: in the handshake on a binary semaphore that starts at 0, every post
\* that takes effect (value becomes 1) is eventually followed by the
\* consumer returning from semaphore_pend, assuming the consumer is
\* eventually scheduled.  Runs that fault or get caught in
\* drop_semaphore_lock are not held against the claim.
C5_PostWakesConsumer ==
    ConsumerScheduled =>
        ((sem.value = 1) ~> (\/ pc[Consumer] \in {"pend_ret", "pend_end"}
                             \/ halted # "no"
                             \/ DropStuck))

\* The consumer is on the blocked list with the post it waits for already
\* made, and no poster is left that would call unblock_task on it.
C5_LostWakeup ==
    /\ halted = "no"
    /\ sem.value = 1
    /\ pc[Consumer] = "pend_woke"
    /\ tcb[Consumer].state = "TASK_BLOCKED"
    /\ Consumer \in Members(lnk, blocked_tasks)
    /\ \A u \in Task : pc[u] \notin {"post_chk", "post_drop_unblock", "post_unblock"}

\* A task is inside get_semaphore_lock while the lock is held.
LockWaited == \E t \in Task : pc[t] \in GetPcs /\ sem.lock # SEMAPHORE_UNLOCKED

\* Task u waits for a post: its entry is on the waiting list and it is
\* suspended on the blocked list in state TASK_BLOCKED.
BlockedWaiting(u) ==
    /\ went[u].live /\ u \in Members(wlnk, sem.waiting_tasks)
    /\ tcb[u].state = "TASK_BLOCKED" /\ u \in Members(lnk, blocked_tasks)
    /\ active_task # u

\* C36: with several tasks blocked in semaphore_pend(sem, SYS_TIMEOUT_INF) on
\* a counting semaphore, no waiter stays blocked for ever while value > 0:
\* from a state with value > 0 and a blocked waiter, the waiter is unblocked
\* or the value is used up.  Runs that end in a task spinning for the lock
\* or caught in try_drop are left aside.
C36_NoWaiterLeftBehind ==
    \A u \in Waiters :
        (sem.value > 0 /\ BlockedWaiting(u))
            ~> (~BlockedWaiting(u) \/ sem.value = 0 \/ halted # "no"
                \/ DropStuck \/ LockWaited)

\* Two posts have been made before the first woken waiter has run: the value
\* is 2, the head waiter is ready with its entry still first on the waiting
\* list, the second waiter is still blocked, and no post is in progress.
C36_SecondWaiterAsleep ==
    \E a, b \in Waiters :
        /\ halted = "no" /\ a # b
        /\ sem.value = 2
        /\ WaitSeq = <<a, b>>
        /\ tcb[a].state = "TASK_READY" /\ pc[a] = "pend_woke"
        /\ a \in Members(lnk, ready_tasks[tcb[a].priority])
        /\ BlockedWaiting(b)
        /\ pc[Poster] = "run"

\* C37: every call of get_semaphore_lock eventually returns: a task that has
\* entered it leaves it, and no interrupt handler spins on the lock byte.
C37_LockReturns ==
    /\ \A t \in Task : (pc[t] \in GetPcs) ~> (pc[t] \notin GetPcs)
    /\ [](halted # "hang")

\* The running task is inside get_semaphore_lock while the lock is held by a
\* ready task of lower priority that was preempted between get and drop, and
\* no task of the spinner's priority or above is left to take the CPU.
C37_SpinsOnPreemptedHolder ==
    \E t, h \in UserTask :
        /\ halted = "no" /\ ~pendsv
        /\ active_task = t /\ pc[t] \in GetPcs /\ lph[t] = "rel"
        /\ pc[h] \in HoldPcs /\ sem.lock = SEMAPHORE_LOCKED
        /\ tcb[h].state = "TASK_READY" /\ tcb[h].priority < tcb[t].priority
        /\ \A u \in UserTask \ {t} :
              tcb[u].priority >= tcb[t].priority => tcb[u].state = "TASK_BLOCKED"

\* C38: once the scheduler has started, active_task is non-null wherever the
\* kernel dereferences it: at the priority comparison of SysTickHandler in the
\* preemptive build and at the context save of PendSVHandler; and the start
\* handler and PendSVHandler never return with active_task null.
C38_ActiveWhereUsed ==
    [][/\ (SYS_USE_PREEMPTION = PREEMPTION_ENABLED /\ Tick) => active_task # NULL
       /\ PendSVHandler => active_task # NULL
       /\ (SVCallHandler \/ PendSVHandler) => active_task' # NULL]_vars

\* task_destroy has cleared active_task and the SVC instruction has not been
\* executed yet; SysTick is enabled and the build is preemptive.
C38_TickInDestroyWindow ==
    /\ started /\ halted = "no" /\ ~pendsv
    /\ SYS_USE_PREEMPTION = PREEMPTION_ENABLED
    /\ active_task = NULL
    /\ \E t \in UserTask : pc[t] = "destroy_svc" /\ t \in Members(lnk, exited_tasks)

\* The index after those of KernelHeads stands for active_task.
ActivePlace == RTOS_PRIORITY_COUNT + 3

\* The places where the kernel holds task t: ActivePlace, or the index (in
\* KernelHeads) of each list that links it.
PlacesOf(t) ==
    (IF active_task = t THEN {ActivePlace} ELSE {})
        \cup {x \in KernelListNames : t \in KernelList(x)}

\* C39: no task is lost: every created task that is not freed is in exactly
\* one place, the active task or one of the ready queue of its priority, the
\* delayed, the blocked and the exited list; the active task is linked in no
\* list.
C39_OnePlacePerTask ==
    (started /\ halted = "no") =>
        \A t \in alloc :
            /\ Cardinality(PlacesOf(t)) = 1
            /\ \A p \in Prio : p \in PlacesOf(t) => p = tcb[t].priority

\* The running task is also linked into the ready queue of its priority.
C39_ActiveStillQueued ==
    /\ started /\ halted = "no" /\ ~pendsv
    /\ active_task \in alloc
    /\ tcb[active_task].state = "TASK_READY"
    /\ PlacesOf(active_task) = {ActivePlace, tcb[active_task].priority}

\* The list with head list over the links h is a circular doubly linked
\* list: following next from the head visits each member once and comes back
\* to the head, and next and prev are inverse on its members.
WellFormed(h, list) ==
    /\ Walk(h, list).end = "ring"
    /\ \A n \in Members(h, list) :
          /\ h.next[n] # NULL /\ h.prev[n] # NULL
          /\ h.prev[h.next[n]] = n
          /\ h.next[h.prev[n]] = n

\* C40: every scheduler list and the semaphore's waiting list is a
\* well-formed circular doubly linked list, and a task control block or a
\* live waiting entry that is in no list has null next and prev.
C40_ListsWellFormed ==
    halted = "no" =>
        /\ \A x \in KernelListNames : WellFormed(lnk, KernelHeads[x])
        /\ WellFormed(wlnk, sem.waiting_tasks)
        /\ \A t \in alloc \ Listed : lnk.next[t] = NULL /\ lnk.prev[t] = NULL
        /\ \A e \in Task :
              went[e].live /\ e \notin Members(wlnk, sem.waiting_tasks)
                  => wlnk.next[e] = NULL /\ wlnk.prev[e] = NULL

\* A ready queue whose head has a null prev link: the released task was still
\* linked in the ready queue when SysTickHandler removed it from the delayed
\* list and appended it again.
C40_ReadyQueueBroken ==
    \E u \in UserTask :
        /\ halted = "no"
        /\ ready_tasks[tcb[u].priority] = u
        /\ lnk.next[u] = u /\ lnk.prev[u] = NULL
        /\ delayed_tasks = NULL
        /\ tcb[u].state = "TASK_DELAYED"

====
